---- MODULE Spec2Model ----
(***************************************************************************)
(* A model of slot_assistant: the vector store's add_documents and the     *)
(* ingest command (rag/store.py, cli/main.py), the retrieval step of the   *)
(* /chat endpoint and of the ask command (api/server.py, cli/main.py), and *)
(* the AST chunk extraction of rag/ast_loader.py.                          *)
(*                                                                         *)
(* Three specifications share the module: SpecIndex (indexing), SpecChat   *)
(* (retrieval) and SpecWalk (chunk extraction).  Each leaves the variables *)
(* of the other two at their initial values.                               *)
(***************************************************************************)
EXTENDS Integers, Sequences, FiniteSets, TLC

VARIABLES
    \* ---- indexing (store.py, main.py ingest)
    collection,   \* the ChromaDB collection: id -> [text, meta]
    add_pc,       \* "idle" | "adding": position inside add_documents
    documents,    \* add_documents: the argument
    chunks,       \* add_documents: text_splitter.split_documents(documents)
    batch_size,   \* add_documents: the argument
    i,            \* add_documents: the loop variable of range(0, len(chunks), batch_size)
    cur,          \* history of the running invocation: ids and triples sent so far
    last,         \* history: the latest completed invocation (or NoRun)
    prev,         \* history: the completed invocation before it (or NoRun)
    n_runs,       \* history: invocations of add_documents and ingest so far
    ingest_out,   \* what the latest ingest command reported
    \* ---- retrieval (server.py chat, main.py ask)
    chat_pc,      \* "idle" | "llm": before, or between retrieval and generation
    handler,      \* "chat" | "ask": the handler serving the request
    request,      \* the request: [context, use_rag]
    rows,         \* the rows of the queried collection, best match first
    fail,         \* the gateway call that raises for this request, or "none"
    context,      \* the handler's local `context`, a sequence of text segments
    results,      \* the handler's local `results`: <<>> for None, else <<the result>>
    queried,      \* history: the gateway's query operation was called
    raised,       \* history: a gateway call of this request raised
    console,      \* what the handler printed: the server's log (chat), the terminal (ask)
    out,          \* history: <<the outcome of the latest request>>, <<>> while it runs
    ref,          \* history: <<the outcome of the latest request whose retrieval
                  \*          found nothing>>, <<>> before there is one
    \* ---- chunk extraction (ast_loader.py)
    file,         \* the file handed to load_file: [ext, items, root]
    walk_pc,      \* "idle" | "walking" | "done": before, inside and after load_file
    loaded,       \* the list `chunks` of load_file, and what load_file returned
    stack,        \* the calls of _walk_tree in progress: [node, at, parent_name]
    visited,      \* history: the children the loops of _walk_tree took, as paths
    \* ---- corpus assembly (loader.py)
    ts_env,       \* what can be imported: "full" (tree_sitter and the grammars),
                  \* "no_typescript", "no_grammar", "no_grammar_ts", "absent"
                  \* (see HAS_TREE_SITTER and HAS_TYPESCRIPT)
    root_dir,     \* DirectoryLoader.root_dir: [parts, exists]
    dir,          \* the entries path.rglob yields, in its order
    use_ast,      \* the argument use_ast, and DirectoryLoader.use_ast after __init__
    load_pc,      \* "new" | "init_raised" | "idle" | "scanning" | "done" | "raised":
                  \* before and after __init__, and the position inside load
    pos,          \* load: the position in dir of the file looked at next
    dir_documents \* load: the local `documents`

index_vars == <<collection, add_pc, documents, chunks, batch_size, i, cur, last, prev,
                n_runs, ingest_out>>

chat_vars == <<chat_pc, handler, request, rows, fail, context, results, queried, raised,
               console, out, ref>>

walk_vars == <<file, walk_pc, loaded, stack, visited>>

load_vars == <<ts_env, root_dir, dir, use_ast, load_pc, pos, dir_documents>>

vars == <<index_vars, chat_vars, walk_vars, load_vars>>

\* An Optional[str] of the program is None or Some(s): Python's None is not
\* a string, so the name "None" and the empty string are values apart from
\* it.  NoLine is the absent line number (line numbers are 1-based).
None == <<>>
Some(s) == <<s>>
NoLine == 0

\* Python's truthiness of an Optional[str]: neither None nor ''.
Truthy(opt) == opt # None /\ opt[1] # ""

(***************************************************************************)
(* Bounds of the model.                                                    *)
(***************************************************************************)
MaxDocs == 2          \* documents handed to one add_documents call
MaxRuns == 2          \* invocations of add_documents and ingest in one behaviour
MaxHits == 3          \* rows the queried collection holds
MaxItems == 2         \* top-level constructs of a source file
MaxMethods == 2       \* methods of a class
MaxDirFiles == 2      \* files of the directory that is loaded

(***************************************************************************)
(* store.py: VectorStore.__init__ and add_documents.                       *)
(***************************************************************************)
chunk_size == 1000        \* RecursiveCharacterTextSplitter(chunk_size=1000)
chunk_overlap == 200      \* RecursiveCharacterTextSplitter(chunk_overlap=200)
DefaultBatchSize == 100   \* add_documents(..., batch_size: int = 100)

\* Explicit batch sizes tried besides the default.
BatchSizes == {1, 2}

\* Lengths of page_content used by the model: a short text, a text just over
\* one window and a text just over two windows.
ShortLen == 40

\* page_content is a text without separators, given by the file version it
\* was read from (body) and its length; a window of it is [body, from, to).
Content(body, len) == [body |-> body, from |-> 0, to |-> len]

\* dict.get(key): None for a key the dict does not have
Get(meta, key) == IF key \in DOMAIN meta THEN Some(meta[key]) ELSE None

\* Documents as the loaders build them.  AST chunks carry source, name and
\* start_line; the metadata of simple chunks has neither name nor line range.
AstMeta(source, name, start_line) ==
    [source |-> source, name |-> name, start_line |-> start_line, parse_method |-> "ast"]
SimpleMeta(source) == [source |-> source, parse_method |-> "simple"]

Document(content, meta) == [page_content |-> content, metadata |-> meta]

Docs ==
    { Document(Content("a.py#v1:foo", ShortLen), AstMeta("a.py", "foo", 1)),
      Document(Content("a.py#v2:foo", ShortLen), AstMeta("a.py", "foo", 1)),
      Document(Content("a.py#v1:Bar", chunk_size + 1), AstMeta("a.py", "Bar", 5)),
      Document(Content("b.md#v2", 2 * chunk_size - chunk_overlap + 1), SimpleMeta("b.md")) }

RECURSIVE SeqsUpTo(_, _)
SeqsUpTo(S, n) ==
    IF n = 0 THEN { <<>> }
    ELSE LET shorter == SeqsUpTo(S, n - 1)
         IN  shorter \cup { Append(s, x) : s \in shorter, x \in S }

\* The document lists a loader can hand over: no document twice, and not two
\* versions of one chunk.
DocLists ==
    { ds \in SeqsUpTo(Docs, MaxDocs) :
        \A p, q \in 1..Len(ds) :
            p # q => \/ ds[p].metadata.source # ds[q].metadata.source
                     \/ Get(ds[p].metadata, "name") # Get(ds[q].metadata, "name") }

\* RecursiveCharacterTextSplitter.split_text on a text without separators:
\* windows of chunk_size characters, each starting chunk_size - chunk_overlap
\* after the one before, the last one holding the rest.
RECURSIVE Windows(_, _, _)
Windows(body, from, to) ==
    IF to - from <= chunk_size
    THEN << [body |-> body, from |-> from, to |-> to] >>
    ELSE << [body |-> body, from |-> from, to |-> from + chunk_size] >>
         \o Windows(body, from + chunk_size - chunk_overlap, to)

\* split_documents on one document: every window keeps a copy of the
\* document's metadata.  It looks at no field of the metadata.
SplitDocument(doc) ==
    LET w == Windows(doc.page_content.body, doc.page_content.from, doc.page_content.to)
    IN  [k \in 1..Len(w) |-> Document(w[k], doc.metadata)]

RECURSIVE SplitDocuments(_)
SplitDocuments(docs) ==
    IF docs = <<>> THEN <<>>
    ELSE SplitDocument(Head(docs)) \o SplitDocuments(Tail(docs))

\* f"doc_{j}"
DocId(j) == <<"doc", j>>

\* chunks[i:i + batch_size], i counted from 0
Batch(cs, from, size) ==
    SubSeq(cs, from + 1, IF from + size < Len(cs) THEN from + size ELSE Len(cs))

\* A slip that numbers the ids of a batch from 0 in every batch.
BatchIdsLocal(from, n) == [k \in 1..n |-> DocId(k - 1)]

\* A slip that numbers the ids after the rows the collection already holds.
BatchIdsAfterCount(from, n) ==
    [k \in 1..n |-> DocId(Cardinality(DOMAIN collection) + from + k - 1)]

\* ids = [f"doc_{j}" for j in range(i, i + len(batch))]
BatchIds(from, n) == [k \in 1..n |-> DocId(from + k - 1)]

Row(chunk) == [text |-> chunk.page_content, meta |-> chunk.metadata]

\* collection.add(ids, documents, metadatas) of a persistent ChromaDB
\* collection: a row is inserted under each id the collection does not hold
\* yet; a record whose id exists already is ignored (not overwritten).
CollectionAdd(coll, ids, batch) ==
    LET new == { k \in 1..Len(ids) : ids[k] \notin DOMAIN coll }
        newIds == { ids[k] : k \in new }
    IN  [id \in DOMAIN coll \cup newIds |->
            IF id \in DOMAIN coll THEN coll[id]
            ELSE Row(batch[CHOOSE k \in new : ids[k] = id])]

\* collection.count(): the number of rows, of the collection as a mapping
\* from ids and of its ranked row list alike
Count(coll) == Cardinality(DOMAIN coll)

EmptyCollection == [id \in {} |-> {}]

NoRun == [by |-> "nobody", documents |-> <<>>, chunks |-> <<>>, batch_size |-> 0, ids |-> <<>>,
          sent |-> {}, before |-> EmptyCollection, after |-> EmptyCollection,
          done |-> FALSE]

\* The entry of add_documents: split, then loop over the batches.
StartAdd(docs, bs, by) ==
    /\ add_pc = "idle"
    /\ n_runs < MaxRuns
    /\ n_runs' = n_runs + 1
    /\ documents' = docs
    /\ chunks' = SplitDocuments(docs)
    /\ batch_size' = bs
    /\ i' = 0
    /\ cur' = [NoRun EXCEPT !.by = by, !.documents = docs, !.chunks = SplitDocuments(docs),
                            !.batch_size = bs, !.before = collection]
    /\ add_pc' = "adding"

\* add_documents called directly with an explicit batch size.
AddDocuments ==
    /\ \E docs \in DocLists, bs \in BatchSizes : StartAdd(docs, bs, "add_documents")
    /\ UNCHANGED <<collection, last, prev, ingest_out>>
    /\ UNCHANGED <<chat_vars, walk_vars, load_vars>>

\* One iteration of the batch loop of add_documents.
AddBatch ==
    /\ add_pc = "adding"
    /\ i < Len(chunks)
    /\ LET batch == Batch(chunks, i, batch_size)
           ids == BatchIds(i, Len(batch))
       IN  /\ collection' = CollectionAdd(collection, ids, batch)
           /\ cur' = [cur EXCEPT !.ids = @ \o ids,
                                 !.sent = @ \cup { <<ids[k], Row(batch[k])>> :
                                                      k \in 1..Len(batch) }]
    /\ i' = i + batch_size
    /\ UNCHANGED <<add_pc, documents, chunks, batch_size, last, prev, n_runs, ingest_out>>
    /\ UNCHANGED <<chat_vars, walk_vars, load_vars>>

\* The loop of add_documents is exhausted: the call returns.
AddReturn ==
    /\ add_pc = "adding"
    /\ i >= Len(chunks)
    /\ add_pc' = "idle"
    /\ last' = [cur EXCEPT !.after = collection, !.done = TRUE]
    /\ prev' = last
    /\ cur' = NoRun
    /\ documents' = <<>>
    /\ chunks' = <<>>
    /\ batch_size' = 0
    /\ i' = 0
    /\ ingest_out' = IF cur.by = "ingest" THEN "indexing complete" ELSE ingest_out
    /\ UNCHANGED <<collection, n_runs>>
    /\ UNCHANGED <<chat_vars, walk_vars, load_vars>>

(***************************************************************************)
(* main.py: the ingest command.                                            *)
(***************************************************************************)
Ingest ==
    /\ add_pc = "idle"
    /\ n_runs < MaxRuns
    /\ \E force \in BOOLEAN, docs \in DocLists :
          IF Count(collection) > 0 /\ ~force
          THEN /\ ingest_out' = "already indexed"
               /\ n_runs' = n_runs + 1
               /\ UNCHANGED <<collection, add_pc, documents, chunks, batch_size, i, cur,
                              last, prev>>
          ELSE IF docs = <<>>
          THEN /\ ingest_out' = "no documents"
               /\ n_runs' = n_runs + 1
               /\ UNCHANGED <<collection, add_pc, documents, chunks, batch_size, i, cur,
                              last, prev>>
          ELSE /\ StartAdd(docs, DefaultBatchSize, "ingest")
               /\ ingest_out' = "indexing"
               /\ UNCHANGED <<collection, last, prev>>
    /\ UNCHANGED <<chat_vars, walk_vars, load_vars>>

IndexInit ==
    /\ collection = EmptyCollection
    /\ add_pc = "idle"
    /\ documents = <<>>
    /\ chunks = <<>>
    /\ batch_size = 0
    /\ i = 0
    /\ cur = NoRun
    /\ last = NoRun
    /\ prev = NoRun
    /\ n_runs = 0
    /\ ingest_out = "nothing"

IndexNext == AddDocuments \/ AddBatch \/ AddReturn \/ Ingest

(***************************************************************************)
(* server.py: the retrieval part of chat.                                  *)
(***************************************************************************)
n_results_chat == 10      \* chat: collection.query(..., n_results=10)
n_results_ask == 5        \* ask: store.query(question, n_results=5)

\* Metadata of stored rows as the query returns it, by what meta.get(k)
\* gives for each key the handlers read: None (NoLine) for a key the row
\* does not have.  NoMeta is the metadata with no key at all.
Meta(filename, name, node_type, start_line, end_line) ==
    [filename |-> filename, name |-> name, node_type |-> node_type,
     start_line |-> start_line, end_line |-> end_line]

NoMeta == Meta(None, None, None, NoLine, NoLine)

Hit(doc, meta) == [doc |-> doc, meta |-> meta]

\* The rows a collection may hold: one function indexed twice with a
\* different end_line, two text windows of one simple-loaded file, and a row
\* stored without metadata; a function whose name is the empty string (the
\* parser supplied a missing identifier) and a class named None.
Hits ==
    { Hit("foo v1", Meta(Some("a.py"), Some("foo"), Some("function_definition"), 1, 3)),
      Hit("foo v2", Meta(Some("a.py"), Some("foo"), Some("function_definition"), 1, 4)),
      Hit("b.md [0,1000)", Meta(Some("b.md"), None, None, NoLine, NoLine)),
      Hit("b.md [800,1801)", Meta(Some("b.md"), None, None, NoLine, NoLine)),
      Hit("unnamed", Meta(Some("c.py"), Some(""), Some("function_definition"), 7, 7)),
      Hit("class None", Meta(Some("d.js"), Some("None"), Some("class_declaration"), 1, 2)),
      Hit("bare", NoMeta) }

\* The collection's rows, best match first.
RowLists == SeqsUpTo(Hits, MaxHits)

Take(seq, n) == SubSeq(seq, 1, IF Len(seq) < n THEN Len(seq) ELSE n)

\* collection.query(query_texts=[q], n_results=n, include=[documents, metadatas]):
\* the n best rows; ['documents'][0] and ['metadatas'][0] of the result.
Query(rs, n) ==
    LET top == Take(rs, n)
    IN  [documents |-> [k \in 1..Len(top) |-> top[k].doc],
         metadatas |-> [k \in 1..Len(top) |-> top[k].meta]]

\* A slip: the key of the spec's data model, without end_line.
DedupKeyNoEndLine(meta) == <<meta.filename, meta.name, meta.start_line>>

\* key = (meta.get('filename'), meta.get('name'), meta.get('start_line'), meta.get('end_line'))
DedupKey(meta) == <<meta.filename, meta.name, meta.start_line, meta.end_line>>

\* The loop `for doc, meta in zip(docs, metas)` of chat from position k on:
\* the positions whose pair is appended to unique_pairs.
RECURSIVE UniquePositions(_, _, _)
UniquePositions(metas, k, seen) ==
    IF k > Len(metas) THEN <<>>
    ELSE IF metas[k] # NoMeta /\ DedupKey(metas[k]) \notin seen
         THEN <<k>> \o UniquePositions(metas, k + 1, seen \cup {DedupKey(metas[k])})
         ELSE UniquePositions(metas, k + 1, seen)

\* unique_pairs
UniquePairs(res) ==
    LET ps == UniquePositions(res.metadatas, 1, {})
    IN  [k \in 1..Len(ps) |-> Hit(res.documents[ps[k]], res.metadatas[ps[k]])]

\* meta.get('filename', 'unknown')
Filename(meta) == IF meta.filename = None THEN "unknown" ELSE meta.filename[1]

\* source_info: [filename::name] when meta.get('name') is truthy and not
\* 'anonymous', [filename] otherwise
SourceInfo(meta) ==
    IF Truthy(meta.name) /\ meta.name # Some("anonymous")
    THEN <<Filename(meta), meta.name[1]>>
    ELSE <<Filename(meta)>>

\* The text chat appends to context for a non-empty result: the header with
\* the count, one annotated segment per unique pair, the footer.
RetrievedContext(res) ==
    LET up == UniquePairs(res)
    IN  << <<"header", Len(up)>> >>
        \o [k \in 1..Len(up) |-> <<"chunk", k, SourceInfo(up[k].meta), up[k].doc>>]
        \o << <<"footer">> >>

\* The entry of the source list for one metadata: name and nodeType are
\* meta.get results, lines is set when meta.get('start_line') is truthy.
Source(meta) ==
    [filename |-> Filename(meta), name |-> meta.name, nodeType |-> meta.node_type,
     lines |-> IF meta.start_line # NoLine THEN <<meta.start_line, meta.end_line>> ELSE <<>>]

\* A slip: the second loop adds a source for every hit that has metadata.
RECURSIVE SourcePositionsOfAll(_, _, _)
SourcePositionsOfAll(metas, k, seen) ==
    IF k > Len(metas) THEN <<>>
    ELSE IF metas[k] = NoMeta THEN SourcePositionsOfAll(metas, k + 1, seen)
    ELSE <<k>> \o SourcePositionsOfAll(metas, k + 1, seen)

\* The loop `for meta in results['metadatas'][0]` of chat from position k
\* on: the positions for which a source is appended.
RECURSIVE SourcePositions(_, _, _)
SourcePositions(metas, k, seen) ==
    IF k > Len(metas) THEN <<>>
    ELSE IF metas[k] = NoMeta THEN SourcePositions(metas, k + 1, seen)
    ELSE IF DedupKey(metas[k]) \in seen THEN SourcePositions(metas, k + 1, seen)
    ELSE <<k>> \o SourcePositions(metas, k + 1, seen \cup {DedupKey(metas[k])})

\* The second loop of chat, over results['metadatas'][0].
Sources(res) ==
    LET ps == SourcePositions(res.metadatas, 1, {})
    IN  [k \in 1..Len(ps) |-> Source(res.metadatas[ps[k]])]

\* if request.context: the segment is added for a context that is neither
\* None nor the empty string
ProvidedContext(req) ==
    IF Truthy(req.context) THEN << <<"provided", req.context[1]>> >> ELSE <<>>

Requests == [context : {None, Some(""), Some("selection")}, use_rag : BOOLEAN]

\* The gateway call that raises: VectorStore(), count(), query(), or none.
Failures == {"none", "init", "count", "query"}

\* A slip: the guard lets the query run on an empty collection.
ShouldQueryAlways(rs) == Count(rs) >= 0

\* if store.count() > 0:
ShouldQuery(rs) == Count(rs) > 0

\* What the caller of a finished request got, with the inputs of the request.
Outcome(h, req, llm_ok, received) ==
    [handler |-> h, request |-> req, llm_ok |-> llm_ok, gateway_failed |-> raised,
     received |-> received]

\* The retrieval of the request in progress succeeded and found nothing.
FoundNothing ==
    /\ request.use_rag
    /\ ~raised
    /\ results = <<>> \/ Len(results[1].documents) = 0

\* Lines 104-167 of chat: the provided context, then the retrieval inside
\* try/except.  An exception is printed and the request goes on without it.
ChatRetrieve ==
    /\ chat_pc = "idle"
    /\ \E req \in Requests, f \in Failures :
          /\ handler' = "chat"
          /\ request' = req
          /\ fail' = f
          /\ IF ~req.use_rag
             THEN /\ context' = ProvidedContext(req)
                  /\ results' = <<>>
                  /\ queried' = FALSE
                  /\ raised' = FALSE
                  /\ console' = <<>>
             ELSE IF f \in {"init", "count"}
             THEN /\ context' = ProvidedContext(req)
                  /\ results' = <<>>
                  /\ queried' = FALSE
                  /\ raised' = TRUE
                  /\ console' = <<"RAG Error">>
             ELSE IF ~ShouldQuery(rows)
             THEN /\ context' = ProvidedContext(req)
                  /\ results' = <<>>
                  /\ queried' = FALSE
                  /\ raised' = FALSE
                  /\ console' = <<>>
             ELSE IF f = "query"
             THEN /\ context' = ProvidedContext(req)
                  /\ results' = <<>>
                  /\ queried' = TRUE
                  /\ raised' = TRUE
                  /\ console' = <<"RAG Error">>
             ELSE LET res == Query(rows, n_results_chat)
                  IN  /\ results' = <<res>>
                      /\ queried' = TRUE
                      /\ raised' = FALSE
                      /\ console' = <<>>
                      /\ context' = IF Len(res.documents) > 0
                                    THEN ProvidedContext(req) \o RetrievedContext(res)
                                    ELSE ProvidedContext(req)
    /\ chat_pc' = "llm"
    /\ out' = <<>>
    /\ UNCHANGED <<rows, ref>>
    /\ UNCHANGED <<index_vars, walk_vars, load_vars>>

\* Lines 169-207 of chat: generation, the source list, the response; an
\* exception of the LLM becomes an HTTP 500.
ChatRespond ==
    /\ chat_pc = "llm"
    /\ handler = "chat"
    /\ \E llm_ok \in BOOLEAN :
          LET sources == IF request.use_rag /\ results # <<>>
                         THEN Sources(results[1]) ELSE <<>>
              received ==
                  IF llm_ok
                  THEN [status |-> "200", response |-> <<"answer", context>>,
                        context_used |-> context, sources |-> sources]
                  ELSE [status |-> "500", response |-> <<"detail">>,
                        context_used |-> <<>>, sources |-> <<>>]
              o == Outcome("chat", request, llm_ok, received)
          IN  /\ out' = <<o>>
              /\ ref' = IF FoundNothing THEN <<o>> ELSE ref
    /\ chat_pc' = "idle"
    /\ UNCHANGED <<handler, request, rows, fail, context, results, queried, raised, console>>
    /\ UNCHANGED <<index_vars, walk_vars, load_vars>>

(***************************************************************************)
(* main.py: the ask command.                                               *)
(***************************************************************************)
\* Whether a gateway call of ask raises: VectorStore() and count() are
\* always called, query() only on a collection that holds rows.
AskGatewayRaises(f, rs) ==
    \/ f \in {"init", "count"}
    \/ f = "query" /\ Count(rs) # 0

\* A slip: ask wraps its retrieval in the try/except that chat has.
AskCatchesAsChat == TRUE

\* The retrieval of ask stands outside any try: an exception of
\* VectorStore(), count() or query() leaves the command.
AskCatches == FALSE

\* "\n\n".join(results)
JoinResults(docs) == [k \in 1..Len(docs) |-> <<"result", docs[k]>>]

\* Lines 219-232 of ask.
AskRetrieve ==
    /\ chat_pc = "idle"
    /\ \E use_rag \in BOOLEAN, f \in Failures :
          LET req == [context |-> None, use_rag |-> use_rag]
          IN
          /\ handler' = "ask"
          /\ request' = req
          /\ fail' = f
          /\ IF ~use_rag
             THEN /\ context' = <<>>
                  /\ results' = <<>>
                  /\ queried' = FALSE
                  /\ raised' = FALSE
                  /\ console' = <<>>
                  /\ chat_pc' = "llm"
                  /\ out' = <<>>
             ELSE IF AskGatewayRaises(f, rows)
             THEN /\ context' = <<>>
                  /\ results' = <<>>
                  /\ queried' = (f = "query")
                  /\ raised' = TRUE
                  /\ IF ~AskCatches
                     THEN /\ console' = <<"Retrieving relevant code...", "Traceback">>
                          /\ chat_pc' = "idle"
                          /\ out' = << [handler |-> "ask", request |-> req, llm_ok |-> FALSE,
                                        gateway_failed |-> TRUE,
                                        received |-> [exit |-> "exception",
                                                      console |-> <<"Retrieving relevant code...",
                                                                    "Traceback">>]] >>
                     ELSE /\ console' = <<"Retrieving relevant code...">>
                          /\ chat_pc' = "llm"
                          /\ out' = <<>>
             ELSE IF Count(rows) = 0
             THEN /\ context' = <<>>
                  /\ results' = <<>>
                  /\ queried' = FALSE
                  /\ raised' = FALSE
                  /\ console' = <<"Retrieving relevant code...", "No documents indexed">>
                  /\ chat_pc' = "llm"
                  /\ out' = <<>>
             ELSE LET res == Query(rows, n_results_ask)
                  IN  /\ results' = << [documents |-> res.documents, metadatas |-> <<>>] >>
                      /\ queried' = TRUE
                      /\ raised' = FALSE
                      /\ context' = IF Len(res.documents) > 0
                                    THEN JoinResults(res.documents) ELSE <<>>
                      /\ console' = IF Len(res.documents) > 0
                                    THEN <<"Retrieving relevant code...", "Retrieved chunks">>
                                    ELSE <<"Retrieving relevant code...">>
                      /\ chat_pc' = "llm"
                      /\ out' = <<>>
    /\ UNCHANGED <<rows, ref>>
    /\ UNCHANGED <<index_vars, walk_vars, load_vars>>

\* Lines 234-245 of ask: generation; a RuntimeError of the LLM is printed and
\* the command exits with code 1.
AskRespond ==
    /\ chat_pc = "llm"
    /\ handler = "ask"
    /\ \E llm_ok \in BOOLEAN :
          LET shown == IF llm_ok THEN <<"Response", context>> ELSE <<"Error">>
              received == [exit |-> IF llm_ok THEN "0" ELSE "1",
                           console |-> console \o <<"Generating response...", shown>>]
              o == Outcome("ask", request, llm_ok, received)
          IN  /\ out' = <<o>>
              /\ ref' = IF FoundNothing THEN <<o>> ELSE ref
    /\ chat_pc' = "idle"
    /\ UNCHANGED <<handler, request, rows, fail, context, results, queried, raised, console>>
    /\ UNCHANGED <<index_vars, walk_vars, load_vars>>

ChatIdle ==
    /\ chat_pc = "idle"
    /\ handler = "none"
    /\ request = [context |-> None, use_rag |-> FALSE]
    /\ fail = "none"
    /\ context = <<>>
    /\ results = <<>>
    /\ queried = FALSE
    /\ raised = FALSE
    /\ console = <<>>
    /\ out = <<>>
    /\ ref = <<>>

ChatNext == ChatRetrieve \/ ChatRespond \/ AskRetrieve \/ AskRespond

(***************************************************************************)
(* ast_loader.py: syntax trees.                                            *)
(*                                                                         *)
(* A node is [type, text, len, start_row, end_row, children]: its          *)
(* tree-sitter type, the text of an identifier, the length of its          *)
(* whitespace-trimmed source slice, its first and last row (0-based, as    *)
(* start_point[0] and end_point[0]) and its children, anonymous tokens     *)
(* included.                                                               *)
(***************************************************************************)
MinChunkLen == 10     \* if len(chunk_code.strip()) < 10: return None

TinyLen == 5          \* the slice of a method such as `a(){}`
LongLen == 50         \* the slice of a construct with a body
ItemRows == 20        \* rows between the starts of two top-level constructs
WideChars == 45       \* two-byte characters of a leading comment

Node(type, text, len, start_row, end_row, children) ==
    [type |-> type, text |-> text, len |-> len, start |-> 0, start_row |-> start_row,
     end_row |-> end_row, children |-> children]

\* The node and all below it moved by d characters.  `start` is the offset
\* in characters of the node's first character in the text; a constructor
\* builds a construct at offset 0 and Placed puts it where it stands.
RECURSIVE Placed(_, _)
Placed(node, d) ==
    [node EXCEPT !.start = @ + d,
                 !.children = [k \in 1..Len(node.children) |-> Placed(node.children[k], d)]]

\* An anonymous token or a childless named node on one row.
Leaf(type, row) == Node(type, "", 1, row, row, <<>>)

\* identifier, property_identifier or type_identifier
Ident(type, text, row) == Node(type, text, 3, row, row, <<>>)

ClassNames == <<"Foo", "Bar", "Baz", "Qux">>
FuncNames == <<"foo", "bar", "baz", "qux">>
MethodNames == <<"m1", "m2", "m3", "m4">>

\* str.lower(), over the letters of ASCII
LowerLetter ==
    ("A" :> "a") @@ ("B" :> "b") @@ ("C" :> "c") @@ ("D" :> "d") @@ ("E" :> "e") @@ ("F" :> "f") @@
    ("G" :> "g") @@ ("H" :> "h") @@ ("I" :> "i") @@ ("J" :> "j") @@ ("K" :> "k") @@ ("L" :> "l") @@
    ("M" :> "m") @@ ("N" :> "n") @@ ("O" :> "o") @@ ("P" :> "p") @@ ("Q" :> "q") @@ ("R" :> "r") @@
    ("S" :> "s") @@ ("T" :> "t") @@ ("U" :> "u") @@ ("V" :> "v") @@ ("W" :> "w") @@ ("X" :> "x") @@
    ("Y" :> "y") @@ ("Z" :> "z")

LowerChar(c) == IF c \in DOMAIN LowerLetter THEN LowerLetter[c] ELSE c

RECURSIVE Lower(_)
Lower(str) ==
    IF Len(str) = 0 THEN ""
    ELSE LowerChar(SubSeq(str, 1, 1)) \o Lower(SubSeq(str, 2, Len(str)))

\* `pattern in text`: the pattern is a substring of the text
Contains(text, pattern) ==
    \E k \in 1..(Len(text) - Len(pattern) + 1) :
        SubSeq(text, k, k + Len(pattern) - 1) = pattern

\* HAS_TYPESCRIPT: tree_sitter_typescript was imported, in a try of its
\* own.  The environment is "full" (tree_sitter and the three grammars),
\* "no_typescript" (all but tree_sitter_typescript), "no_grammar"
\* (tree_sitter without the JavaScript or the Python grammar and without
\* tree_sitter_typescript), "no_grammar_ts" (tree_sitter and
\* tree_sitter_typescript without the JavaScript or the Python grammar) or
\* "absent" (none of the packages).
HAS_TYPESCRIPT(env) == env \in {"full", "no_grammar_ts"}

\* self.ext_to_lang.get(ext): the language of the parser, None for an
\* extension that is not in the table.  Without tree_sitter_typescript the
\* JavaScript parser is used for .ts and .tsx.
ExtToLang(ext, has_typescript) ==
    CASE ext = ".js" -> Some("javascript")
      [] ext = ".jsx" -> Some("javascript")
      [] ext = ".py" -> Some("python")
      [] ext = ".ts" -> Some(IF has_typescript THEN "typescript" ELSE "javascript")
      [] ext = ".tsx" -> Some(IF has_typescript THEN "tsx" ELSE "javascript")
      [] OTHER -> None

\* ext = file_path.suffix.lower(); lang = self.ext_to_lang.get(ext)
LangOfSuffix(suffix) == ExtToLang(Lower(suffix), HAS_TYPESCRIPT(ts_env))

\* lang_key = 'typescript' if lang in ('typescript', 'tsx') else lang
LangKey(lang) == IF lang \in {"typescript", "tsx"} THEN "typescript" ELSE lang

\* lang_key of load_file for a file of a suffix that has a parser
LangKeyOfSuffix(suffix) == LangKey(LangOfSuffix(suffix)[1])

\* The shapes of a top-level construct of a file of a language.
Item(kind, methods, len) == [kind |-> kind, methods |-> methods, len |-> len]

MethodLists(lang) ==
    IF lang = "python" THEN SeqsUpTo({LongLen}, MaxMethods)
    ELSE SeqsUpTo({TinyLen, LongLen}, MaxMethods)

Items(lang) ==
    IF lang = "python"
    THEN { Item("func", <<>>, LongLen), Item("stmt", <<>>, TinyLen),
           Item("error", <<>>, TinyLen), Item("deep", <<>>, LongLen),
           Item("nested_func", <<>>, LongLen), Item("nested_class", <<LongLen>>, LongLen) }
         \cup { Item("class", ms, LongLen) : ms \in MethodLists(lang) }
    ELSE { Item("func", <<>>, LongLen), Item("export_func", <<>>, LongLen),
           Item("stmt", <<>>, TinyLen), Item("stmt", <<>>, LongLen),
           Item("error", <<>>, TinyLen), Item("nested_func", <<>>, LongLen) }
         \cup { Item(k, ms, LongLen) : k \in {"class", "export_class"}, ms \in MethodLists(lang) }
         \cup (IF lang = "typescript"
               THEN { Item("export_declare_class", <<>>, LongLen) } ELSE {})

\* Constructs that stand alone in a file of the model: a function and a
\* class whose name the parser supplied as a missing identifier, of empty
\* text; const declarations, a generator and an abstract class behind
\* `export`; a class named None; and an export_statement with two children
\* whose type holds 'declaration', the first of them without a name.
ExtraItems(lang) ==
    { Item("missing_func", <<>>, LongLen), Item("missing_class", <<LongLen>>, LongLen) }
    \cup (IF lang = "python" THEN {}
          ELSE { Item("const", <<>>, LongLen), Item("export_const", <<>>, LongLen),
                 Item("export_generator", <<>>, LongLen),
                 Item("two_declarations", <<>>, LongLen),
                 Item("class_none", <<LongLen>>, LongLen) })
    \cup (IF lang = "typescript"
          THEN { Item("export_abstract_class", <<>>, LongLen) } ELSE {})

RECURSIVE SumLens(_)
SumLens(lens) == IF lens = <<>> THEN 0 ELSE Head(lens) + SumLens(Tail(lens))

\* The characters of the first n members of a list of lengths.
LensBefore(lens, n) == SumLens(SubSeq(lens, 1, n - 1))

\* def name(): ...  /  function name() {...}
FuncNode(lang, name, len, row) ==
    IF lang = "python"
    THEN Node("function_definition", "", len, row, row + 1,
              << Leaf("def", row), Ident("identifier", name, row), Leaf("parameters", row),
                 Leaf(":", row), Leaf("block", row + 1) >>)
    ELSE Node("function_declaration", "", len, row, row + 1,
              << Leaf("function", row), Ident("identifier", name, row),
                 Leaf("formal_parameters", row), Leaf("statement_block", row + 1) >>)

\* name() {...} inside a class body
MethodNode(name, len, row) ==
    Node("method_definition", "", len, row, row + 1,
         << Ident("property_identifier", name, row), Leaf("formal_parameters", row),
            Leaf("statement_block", row + 1) >>)

\* The row of method j of a class that starts at row.
MethodRow(row, j) == row + 1 + 2 * (j - 1)

\* class Name: <block of methods>  /  class Name { methods }
ClassNode(lang, name, methods, row) ==
    LET n == Len(methods)
        last_row == row + 1 + 2 * n
        len == LongLen + SumLens(methods)
    IN  IF lang = "python"
        THEN Node("class_definition", "", len, row, last_row,
                  << Leaf("class", row), Ident("identifier", name, row), Leaf(":", row),
                     Placed(Node("block", "", len - LongLen + 4, row + 1, last_row,
                                 [j \in 1..n |->
                                     Placed(FuncNode(lang, MethodNames[j], methods[j],
                                                     MethodRow(row, j)),
                                            LensBefore(methods, j))]),
                            LongLen - 4) >>)
        ELSE Node("class_declaration", "", len, row, last_row,
                  << Leaf("class", row),
                     Ident(IF lang = "typescript" THEN "type_identifier" ELSE "identifier",
                           name, row),
                     Placed(Node("class_body", "", len - LongLen + 2, row, last_row,
                                 << Leaf("{", row) >>
                                 \o [j \in 1..n |->
                                        Placed(MethodNode(MethodNames[j], methods[j],
                                                          MethodRow(row, j)),
                                               1 + LensBefore(methods, j))]
                                 \o << Leaf("}", last_row) >>),
                            LongLen - 2) >>)

\* A function whose body defines a function of the given length.
NestedFuncNode(lang, name, len, row) ==
    LET inner == FuncNode(lang, "inner", len, row + 1)
    IN  IF lang = "python"
        THEN Node("function_definition", "", LongLen + len, row, row + 2,
                  << Leaf("def", row), Ident("identifier", name, row), Leaf("parameters", row),
                     Leaf(":", row),
                     Placed(Node("block", "", len + 4, row + 1, row + 2, << inner >>),
                            LongLen - 4) >>)
        ELSE Node("function_declaration", "", LongLen + len, row, row + 3,
                  << Leaf("function", row), Ident("identifier", name, row),
                     Leaf("formal_parameters", row),
                     Placed(Node("statement_block", "", len + 2, row, row + 3,
                                 << Leaf("{", row), Placed(inner, 1), Leaf("}", row + 3) >>),
                            LongLen - 2) >>)

\* A Python class whose body defines the class Inner with the given methods.
NestedClassNode(name, methods, row) ==
    LET inner == ClassNode("python", "Inner", methods, row + 1)
    IN  Node("class_definition", "", LongLen + inner.len, row, inner.end_row,
             << Leaf("class", row), Ident("identifier", name, row), Leaf(":", row),
                Placed(Node("block", "", inner.len + 4, row + 1, inner.end_row, << inner >>),
                       LongLen - 4) >>)

\* The identifier the parser supplies where the text has none: a MISSING
\* node, of no width and of empty text.
MissingIdent(type, row) == Node(type, "", 0, row, row, <<>>)

\* def (): ...  /  function () {...}: a function whose name is missing
MissingNameFuncNode(lang, len, row) ==
    [FuncNode(lang, "", len, row) EXCEPT !.children[2] = MissingIdent("identifier", row)]

\* class : ...  /  class { methods } as a statement: a class whose name is
\* missing
MissingNameClassNode(lang, methods, row) ==
    LET c == ClassNode(lang, "", methods, row)
    IN  [c EXCEPT !.children[2] = MissingIdent(c.children[2].type, row)]

\* function* name() {...}
GeneratorNode(name, len, row) ==
    Node("generator_function_declaration", "", len, row, row + 1,
         << Leaf("function", row), Leaf("*", row), Ident("identifier", name, row),
            Leaf("formal_parameters", row), Leaf("statement_block", row + 1) >>)

\* abstract class Name {} (TypeScript)
AbstractClassNode(name, row) ==
    LET c == ClassNode("typescript", name, <<>>, row)
    IN  Node("abstract_class_declaration", "", c.len + 9, row, c.end_row,
             << Leaf("abstract", row) >>
             \o [k \in 1..Len(c.children) |-> Placed(c.children[k], 9)])

\* const name = ...;  The name is a child of the variable_declarator.
LexicalNode(name, len, row) ==
    Node("lexical_declaration", "", len, row, row,
         << Leaf("const", row),
            Placed(Node("variable_declarator", "", len - 7, row, row,
                        << Ident("identifier", name, row), Leaf("=", row),
                           Leaf("arrow_function", row) >>), 6),
            Leaf(";", row) >>)

\* An export_statement with a const declaration and a function declaration
\* as children.  No rule of the grammars derives it; it is the tree on which
\* entering the first such child only and trying each in turn differ.
TwoDeclarationsNode(lang, name, len, row) ==
    Node("export_statement", "", 2 * len + 8, row, row + 2,
         << Leaf("export", row), Placed(LexicalNode("a", len, row), 7),
            Placed(FuncNode(lang, name, len, row + 1), len + 8) >>)

\* export <declaration>
ExportNode(decl) ==
    Node("export_statement", "", decl.len + 7, decl.start_row, decl.end_row,
         << Leaf("export", decl.start_row), Placed(decl, 7) >>)

\* declare <declaration> (TypeScript)
AmbientNode(decl) ==
    Node("ambient_declaration", "", decl.len + 8, decl.start_row, decl.end_row,
         << Leaf("declare", decl.start_row), Placed(decl, 8) >>)

\* A call as a statement: f()  /  f();
StmtNode(lang, len, row) ==
    Node("expression_statement", "", len, row, row,
         IF lang = "python" THEN << Leaf("call", row) >>
         ELSE << Leaf("call_expression", row), Leaf(";", row) >>)

\* What the parser returns for text it cannot derive: it never raises, it
\* wraps the offending tokens in an ERROR node and goes on.
ErrorNode(len, row) ==
    Node("ERROR", "", len, row, row, << Leaf(")", row), Leaf(")", row) >>)

\* An expression nested deeper than the interpreter's recursion limit, as a
\* long chain a + b + c + ... is; the marker leaf stands for the nested rest.
DeepNode(len, row) ==
    Node("expression_statement", "", len, row, row,
         << Node("binary_operator", "", len, row, row, << Leaf("nested_beyond_limit", row) >>) >>)

ItemNode(lang, item, k, first_row) ==
    LET row == first_row + (k - 1) * ItemRows
    IN  CASE item.kind = "func" -> FuncNode(lang, FuncNames[k], item.len, row)
          [] item.kind = "class" -> ClassNode(lang, ClassNames[k], item.methods, row)
          [] item.kind = "export_func" ->
                ExportNode(FuncNode(lang, FuncNames[k], item.len, row))
          [] item.kind = "export_class" ->
                ExportNode(ClassNode(lang, ClassNames[k], item.methods, row))
          [] item.kind = "export_declare_class" ->
                ExportNode(AmbientNode(ClassNode(lang, ClassNames[k], item.methods, row)))
          [] item.kind = "stmt" -> StmtNode(lang, item.len, row)
          [] item.kind = "error" -> ErrorNode(item.len, row)
          [] item.kind = "nested_func" -> NestedFuncNode(lang, FuncNames[k], item.len, row)
          [] item.kind = "nested_class" -> NestedClassNode(ClassNames[k], item.methods, row)
          [] item.kind = "deep" -> DeepNode(item.len, row)
          [] item.kind = "missing_func" -> MissingNameFuncNode(lang, item.len, row)
          [] item.kind = "missing_class" -> MissingNameClassNode(lang, item.methods, row)
          [] item.kind = "const" -> LexicalNode(FuncNames[k], item.len, row)
          [] item.kind = "export_const" ->
                ExportNode(LexicalNode(FuncNames[k], item.len, row))
          [] item.kind = "export_generator" ->
                ExportNode(GeneratorNode(FuncNames[k], item.len, row))
          [] item.kind = "export_abstract_class" ->
                ExportNode(AbstractClassNode(ClassNames[k], row))
          [] item.kind = "two_declarations" ->
                TwoDeclarationsNode(lang, FuncNames[k], item.len, row)
          [] item.kind = "class_none" -> ClassNode(lang, "None", item.methods, row)

\* The characters of a leading one-line comment that holds `wide`
\* characters outside ASCII, each of two bytes in UTF-8: the comment sign and
\* a blank before them, the line end after them.  No comment when wide = 0.
Lead(wide) == IF wide = 0 THEN 0 ELSE wide + 3

\* The root of the tree of a file: module (python) or program.  The
\* constructs follow the leading comment, one line end between two of them;
\* the length of the root is the length of the whole text.
RootNode(lang, items, wide) ==
    LET first_row == IF wide = 0 THEN 0 ELSE 1
        raw == [k \in 1..Len(items) |-> ItemNode(lang, items[k], k, first_row)]
        lens == [k \in 1..Len(items) |-> raw[k].len + 1]
        total == Lead(wide) + SumLens(lens) - (IF items = <<>> THEN 0 ELSE 1)
    IN  Node(IF lang = "python" THEN "module" ELSE "program", "", total,
             0, first_row + Len(items) * ItemRows,
             (IF wide = 0 THEN <<>> ELSE << Leaf("comment", 0) >>)
             \o [k \in 1..Len(items) |-> Placed(raw[k], Lead(wide) + LensBefore(lens, k))])

\* The offsets of the characters of a text that are white space: the line
\* ends between the top-level nodes (after the leading comment and between
\* two constructs); with `indented`, a line end and a blank before the body
\* of each construct long enough to have them inside, the two characters
\* before the place LongLen - 4 where the block of a Python construct
\* begins; with `eol`, a line end after the last construct.
Blanks(root, indented, eol) ==
    LET BodyIndent(node) ==
            { p \in {node.start + LongLen - 6, node.start + LongLen - 5} :
                  p < node.start + node.len - 1 }
    IN  { root.children[k].start - 1 : k \in 2..Len(root.children) }
        \cup (IF indented
              THEN UNION { BodyIndent(root.children[k]) :
                              k \in { n \in 1..Len(root.children) :
                                          root.children[n].type # "comment" } }
              ELSE {})
        \cup (IF eol THEN {root.len} ELSE {})

\* file is [name, path, ext, status, wide, items, root, blanks]:
\* file_path.name, str(file_path), file_path.suffix, what read_text does
\* ("ok": returns the text, "undecodable": raises UnicodeDecodeError,
\* "unreadable": raises OSError), the two-byte characters of its leading
\* comment, the constructs its text holds (history), the root of its tree
\* and the offsets of the characters of the text that are white space.
\* The file of the one tree the parser gives for the text:
SourceFile(ext, items) ==
    CHOOSE f \in { [name |-> "a" \o ext, path |-> "a" \o ext, ext |-> ext, status |-> "ok",
                    wide |-> 0, items |-> items, root |-> root,
                    blanks |-> Blanks(root, FALSE, FALSE)] :
                       root \in { RootNode(LangKeyOfSuffix(ext), items, 0) } } : TRUE

\* A source file that begins with a comment in a language other than
\* English: WideChars characters of two bytes each.  Its constructs are
\* written without white space before their bodies or with it (indented),
\* and the text ends with its last construct or with a line end after it
\* (eol): the text is then one character longer.
WideFile(ext, items, indented, eol) ==
    CHOOSE f \in { [name |-> "a" \o ext, path |-> "a" \o ext, ext |-> ext, status |-> "ok",
                    wide |-> WideChars, items |-> items,
                    root |-> [root EXCEPT !.len = IF eol THEN @ + 1 ELSE @],
                    blanks |-> Blanks(root, indented, eol)] :
                       root \in { RootNode(LangKeyOfSuffix(ext), items, WideChars) } } : TRUE

\* A file of an extension that has no parser: it has no tree.
TextFile ==
    [name |-> "a.md", path |-> "a.md", ext |-> ".md", status |-> "ok", wide |-> 0,
     items |-> <<>>, root |-> Leaf("none", 0), blanks |-> {}]

\* Files whose text cannot be had: what they hold is never seen.
Unreadable(f, status) == [f EXCEPT !.status = status]

UnreadableFiles ==
    { Unreadable(f, st) : f \in {TextFile, SourceFile(".py", <<>>), SourceFile(".js", <<>>)},
                          st \in {"undecodable", "unreadable"} }

\* The files of one extension that has a parser.
Files(ext) ==
    { SourceFile(ext, items) : items \in SeqsUpTo(Items(LangKeyOfSuffix(ext)), MaxItems) }

\* The files of one construct that stands alone.
SingleFiles(ext) == { SourceFile(ext, << item >>) : item \in ExtraItems(LangKeyOfSuffix(ext)) }

\* A TypeScript file of two exports: one with two children whose kind
\* contains "declaration", one of a class behind `declare`.
TwoExports ==
    SourceFile(".ts", << Item("two_declarations", <<>>, LongLen),
                         Item("export_declare_class", <<>>, LongLen) >>)

\* The files of one construct that begin with a comment outside ASCII.
WideFiles(ext) ==
    { WideFile(ext, << item >>, indented, eol) :
          item \in Items(LangKeyOfSuffix(ext)), indented \in BOOLEAN, eol \in BOOLEAN }

(***************************************************************************)
(* ast_loader.py: the walker, the chunk builder and load_file.             *)
(***************************************************************************)
\* CHUNK_NODE_TYPES.get(lang, set())
CHUNK_NODE_TYPES(lang) ==
    CASE lang = "javascript" ->
            {"function_declaration", "class_declaration", "method_definition",
             "export_statement", "lexical_declaration", "variable_declaration",
             "arrow_function", "expression_statement"}
      [] lang = "typescript" ->
            {"function_declaration", "class_declaration", "method_definition",
             "export_statement", "lexical_declaration", "variable_declaration",
             "arrow_function", "expression_statement", "interface_declaration",
             "type_alias_declaration", "enum_declaration"}
      [] lang = "python" ->
            {"function_definition", "class_definition", "decorated_definition"}
      [] OTHER -> {}

\* CONTAINER_NODE_TYPES.get(lang, set())
CONTAINER_NODE_TYPES(lang) ==
    CASE lang = "javascript" -> {"class_declaration", "class_body"}
      [] lang = "typescript" -> {"class_declaration", "class_body"}
      [] lang = "python" -> {"class_definition"}
      [] OTHER -> {}

IdentifierTypes == {"identifier", "property_identifier", "type_identifier"}

\* The position of the first child whose type is in a set of types, 0 when
\* there is none: the child at which a `for child in node.children` loop
\* returns.
FirstChildOfType(children, types) ==
    IF \E k \in 1..Len(children) : children[k].type \in types
    THEN CHOOSE k \in 1..Len(children) :
             /\ children[k].type \in types
             /\ \A j \in 1..(k - 1) : children[j].type \notin types
    ELSE 0

\* The position of the first child with 'declaration' in child.type, 0 when
\* there is none.
FirstDeclarationChild(children) ==
    IF \E k \in 1..Len(children) : Contains(children[k].type, "declaration")
    THEN CHOOSE k \in 1..Len(children) :
             /\ Contains(children[k].type, "declaration")
             /\ \A j \in 1..(k - 1) : ~Contains(children[j].type, "declaration")
    ELSE 0

\* A slip: the name is looked for among the direct children only.
GetNodeNameDirect(node) ==
    LET d == FirstChildOfType(node.children, IdentifierTypes)
    IN  IF d # 0 THEN node.children[d].text ELSE "anonymous"

\* The name extraction of the spec: the text of the first identifier-like
\* child; failing that, the first name found among the identifier-like
\* children of the children whose type contains 'declaration', each tried in
\* turn and none entered further; failing that, 'anonymous'.
GetNodeNameOneLevel(node) ==
    LET d == FirstChildOfType(node.children, IdentifierTypes)
        named == SelectSeq(node.children,
                           LAMBDA c : /\ Contains(c.type, "declaration")
                                      /\ FirstChildOfType(c.children, IdentifierTypes) # 0)
    IN  IF d # 0 THEN node.children[d].text
        ELSE IF named # <<>>
        THEN named[1].children[FirstChildOfType(named[1].children, IdentifierTypes)].text
        ELSE "anonymous"

\* _get_node_name: the text of the first identifier-like child; failing that,
\* the name of the first child whose type contains 'declaration'; failing
\* that, 'anonymous'.
RECURSIVE GetNodeName(_)
GetNodeName(node) ==
    LET d == FirstChildOfType(node.children, IdentifierTypes)
        w == FirstDeclarationChild(node.children)
    IN  IF d # 0 THEN node.children[d].text
        ELSE IF w # 0 THEN GetNodeName(node.children[w])
        ELSE "anonymous"

\* A slip: the header names the node and the enclosing construct whatever
\* their names are.
HeaderOfAll(f, node, name, parent_name) ==
    << <<"File", f.name>> >>
    \o (IF parent_name # None THEN << <<"Class", parent_name[1]>> >> ELSE <<>>)
    \o << <<node.type, name>> >>

\* prefix_parts of _make_chunk: the Class line for a parent_name that is
\* truthy and not 'anonymous', the line of the node for a name that is
\* neither empty nor 'anonymous'
Header(f, node, name, parent_name) ==
    << <<"File", f.name>> >>
    \o (IF Truthy(parent_name) /\ parent_name # Some("anonymous")
        THEN << <<"Class", parent_name[1]>> >> ELSE <<>>)
    \o (IF name # "" /\ name # "anonymous"
        THEN << <<node.type, name>> >> ELSE <<>>)

Min(a, b) == IF a <= b THEN a ELSE b

\* A slip: the row of the tree is taken as the line.
LineSameAsRow(row) == row

\* node.start_point[0] + 1, node.end_point[0] + 1: rows count from 0
LineOfRow(row) == row + 1

\* chunk_code = code[node.start_byte:node.end_byte]: `code` is a str, the
\* offsets of the node are offsets in the UTF-8 bytes that were parsed.  A
\* node after the leading comment stands f.wide bytes further in the bytes
\* than it stands in the characters; a str slice ends where the str ends.
\* The slice is <<from, to>>, the characters [from, to) of the text.
Slice(node, f) ==
    << Min(node.start + f.wide, f.root.len), Min(node.start + node.len + f.wide, f.root.len) >>

\* str.strip() on the characters [from, to) of the text of f: the white
\* space at the two ends is dropped, the white space inside stays.
RECURSIVE LStrip(_, _, _)
LStrip(from, to, f) ==
    IF from < to /\ from \in f.blanks THEN LStrip(from + 1, to, f) ELSE from

RECURSIVE RStrip(_, _, _)
RStrip(from, to, f) ==
    IF from < to /\ (to - 1) \in f.blanks THEN RStrip(from, to - 1, f) ELSE to

Strip(slice, f) ==
    LET from == LStrip(slice[1], slice[2], f)
    IN  << from, RStrip(from, slice[2], f) >>

\* len(chunk_code.strip()).  A node begins and ends with a character that
\* is no white space; a slice that is not the text of its node may begin
\* or end with white space.
SliceLen(slice, f) == Strip(slice, f)[2] - Strip(slice, f)[1]

\* _make_chunk: no chunk for a slice shorter than 10 characters, else the
\* Document with the enriched content and the metadata.  The result is the
\* list of the chunks made: empty or one.
MakeChunk(node, f, lang, parent_name) ==
    IF SliceLen(Slice(node, f), f) < MinChunkLen THEN <<>>
    ELSE LET name == GetNodeName(node)
         IN  << [page_content |->
                    [header |-> Header(f, node, name, parent_name),
                     code |-> Slice(node, f)],
                 metadata |->
                    [source |-> f.path, filename |-> f.name, extension |-> f.ext,
                     node_type |-> node.type, name |-> name,
                     parent_class |-> IF Truthy(parent_name) THEN parent_name[1] ELSE "",
                     start_line |-> LineOfRow(node.start_row),
                     end_line |-> LineOfRow(node.end_row),
                     language |-> lang, parse_method |-> "ast"]] >>

\* _load_simple: one Document with the whole text and the four keys of the
\* simple metadata; no Document when read_text raises.
LoadSimple(f) ==
    IF f.status # "ok" THEN <<>> ELSE
    << [page_content |-> [header |-> << <<"File", f.name>> >>,
                          code |-> <<0, f.root.len>>],
        metadata |-> [source |-> f.path, filename |-> f.name, extension |-> f.ext,
                      parse_method |-> "simple"]] >>

\* A slip: the walk goes on below every node.
RecursesIntoAll(type, lang) == TRUE

\* Whether _walk_tree is called on a child of the type: on a container after
\* its chunk is made, on a node that is not extracted, and not on the other
\* extracted nodes.
RecursesInto(type, lang) ==
    \/ type \in CONTAINER_NODE_TYPES(lang)
    \/ type \notin CHUNK_NODE_TYPES(lang)

\* A slip: the enclosing name is handed down unchanged below a container.
ParentNameKept(child, lang, parent_name) == parent_name

\* The parent_name _walk_tree is called with on a child: the name of the
\* child when it is a container, else the parent_name in force.
ParentNameBelow(child, lang, parent_name) ==
    IF child.type \in CONTAINER_NODE_TYPES(lang) THEN Some(GetNodeName(child)) ELSE parent_name

\* _walk_tree: the chunks appended while walking the children of node.
RECURSIVE WalkTree(_, _, _, _)
RECURSIVE WalkChildren(_, _, _, _, _)
WalkTree(node, f, lang, parent_name) ==
    WalkChildren(node.children, 1, f, lang, parent_name)

WalkChildren(children, k, f, lang, parent_name) ==
    IF k > Len(children) THEN <<>>
    ELSE LET child == children[k]
             made ==
                 IF child.type \in CONTAINER_NODE_TYPES(lang) \cup CHUNK_NODE_TYPES(lang)
                 THEN MakeChunk(child, f, lang, parent_name)
                 ELSE <<>>
             below ==
                 IF RecursesInto(child.type, lang)
                 THEN WalkTree(child, f, lang, ParentNameBelow(child, lang, parent_name))
                 ELSE <<>>
         IN  made \o below \o WalkChildren(children, k + 1, f, lang, parent_name)

\* A slip: the walk is taken to raise whenever the tree holds an ERROR node.
WalkRaisesOnError(node, lang) ==
    \E k \in 1..Len(node.children) : node.children[k].type = "ERROR"

\* Whether _walk_tree raises (RecursionError): it does when it is called on
\* a node nested beyond the recursion limit.  It is called on containers and
\* on nodes that are not extracted, never on the other extracted nodes.
RECURSIVE WalkRaises(_, _)
WalkRaises(node, lang) ==
    \E k \in 1..Len(node.children) :
        LET child == node.children[k]
        IN  /\ RecursesInto(child.type, lang)
            /\ \/ child.type = "nested_beyond_limit"
               \/ WalkRaises(child, lang)

\* load_file: the fallback when the extension has no parser, when
\* read_text or the walk raises, and when the walk appends nothing.
LoadFileResult(f) ==
    LET lang == LangOfSuffix(f.ext)
    IN  IF lang = None THEN LoadSimple(f)
        ELSE IF f.status # "ok" \/ WalkRaises(f.root, LangKey(lang[1])) THEN LoadSimple(f)
        ELSE LET cs == WalkTree(f.root, f, LangKey(lang[1]), None)
             IN  IF cs # <<>> THEN cs ELSE LoadSimple(f)

LoadFile ==
    /\ walk_pc = "idle"
    /\ loaded' = LoadFileResult(file)
    /\ walk_pc' = "done"
    /\ UNCHANGED <<file, stack, visited>>
    /\ UNCHANGED <<index_vars, chat_vars, load_vars>>

WalkIdle ==
    /\ walk_pc = "idle"
    /\ loaded = <<>>
    /\ stack = <<>>
    /\ visited = <<>>

WalkNext == LoadFile

(***************************************************************************)
(* load_file and _walk_tree one step at a time: a call of _walk_tree is a  *)
(* frame of the stack, `at` the position of its loop over node.children.   *)
(***************************************************************************)
\* A slip: a chunk is put in front of the list.
Prepended(cs, made) == made \o cs

\* chunks.append(chunk), when _make_chunk made one
Appended(cs, made) == cs \o made

\* The call _walk_tree(node, ..., parent_name) as it starts.
Frame(node, parent_name) == [node |-> node, at |-> 1, parent_name |-> parent_name]

\* The child the innermost loop is at, as the positions from the root down.
PathOf(st) == [j \in 1..Len(st) |-> st[j].at]

\* load_file up to the first call of _walk_tree, or to the fallback when
\* there is no parser or read_text raises.
VisitStart ==
    /\ walk_pc = "idle"
    /\ IF LangOfSuffix(file.ext) = None \/ file.status # "ok"
       THEN /\ loaded' = LoadSimple(file)
            /\ walk_pc' = "done"
            /\ stack' = <<>>
       ELSE /\ loaded' = <<>>
            /\ walk_pc' = "walking"
            /\ stack' = << Frame(file.root, None) >>
    /\ visited' = <<>>
    /\ UNCHANGED file
    /\ UNCHANGED <<index_vars, chat_vars, load_vars>>

\* One pass of `for child in node.children` in the innermost call.  The
\* call on a node nested beyond the recursion limit raises, and load_file
\* returns the fallback.
VisitStep ==
    /\ walk_pc = "walking"
    /\ stack # <<>>
    /\ stack[Len(stack)].at <= Len(stack[Len(stack)].node.children)
    /\ LET top == stack[Len(stack)]
           child == top.node.children[top.at]
           lang == LangKeyOfSuffix(file.ext)
           made == IF child.type \in CONTAINER_NODE_TYPES(lang) \cup CHUNK_NODE_TYPES(lang)
                   THEN MakeChunk(child, file, lang, top.parent_name)
                   ELSE <<>>
       IN  /\ visited' = Append(visited, PathOf(stack))
           /\ IF RecursesInto(child.type, lang) /\ child.type = "nested_beyond_limit"
              THEN /\ loaded' = LoadSimple(file)
                   /\ walk_pc' = "done"
                   /\ stack' = <<>>
              ELSE /\ loaded' = Appended(loaded, made)
                   /\ walk_pc' = walk_pc
                   /\ stack' = IF RecursesInto(child.type, lang)
                               THEN Append(stack,
                                           Frame(child,
                                                 ParentNameBelow(child, lang, top.parent_name)))
                               ELSE [stack EXCEPT ![Len(stack)].at = top.at + 1]
    /\ UNCHANGED file
    /\ UNCHANGED <<index_vars, chat_vars, load_vars>>

\* The loop of the innermost call is over: the call returns, and the loop
\* of its caller goes on to the next child.
VisitPop ==
    /\ walk_pc = "walking"
    /\ stack # <<>>
    /\ stack[Len(stack)].at > Len(stack[Len(stack)].node.children)
    /\ stack' = [j \in 1..(Len(stack) - 1) |->
                    IF j = Len(stack) - 1 THEN [stack[j] EXCEPT !.at = stack[j].at + 1]
                    ELSE stack[j]]
    /\ UNCHANGED <<file, walk_pc, loaded, visited>>
    /\ UNCHANGED <<index_vars, chat_vars, load_vars>>

\* return chunks if chunks else self._load_simple(file_path)
VisitReturn ==
    /\ walk_pc = "walking"
    /\ stack = <<>>
    /\ loaded' = IF loaded # <<>> THEN loaded ELSE LoadSimple(file)
    /\ walk_pc' = "done"
    /\ UNCHANGED <<file, stack, visited>>
    /\ UNCHANGED <<index_vars, chat_vars, load_vars>>

VisitNext == VisitStart \/ VisitStep \/ VisitPop \/ VisitReturn

(***************************************************************************)
(* loader.py: DirectoryLoader.load.                                        *)
(***************************************************************************)
\* SUPPORTED_EXTENSIONS and AST_EXTENSIONS
SUPPORTED_EXTENSIONS ==
    {".py", ".js", ".ts", ".tsx", ".jsx", ".html", ".css", ".json", ".c", ".cpp", ".h",
     ".java", ".go", ".rs", ".md", ".txt", ".rst", ".yaml", ".yml"}
AST_EXTENSIONS == {".py", ".js", ".ts", ".tsx", ".jsx"}

DEFAULT_EXCLUDE_PATTERNS ==
    <<"node_modules", "dist", "build", ".git", "__pycache__", ".next", ".venv", "venv",
      "coverage", ".cache", ".tsbuildinfo">>

\* The names of a path, joined by the separator.
RECURSIVE JoinNames(_)
JoinNames(names) ==
    IF names = <<>> THEN ""
    ELSE IF Len(names) = 1 THEN names[1]
    ELSE names[1] \o "/" \o JoinNames(Tail(names))

\* str(file_path), from file_path.parts: the first part of an absolute path
\* is its root, '/' or '//' (exactly two leading slashes are kept), which is
\* followed by no separator; the path of no part is '.'
PathStr(parts) ==
    IF parts = <<>> THEN "."
    ELSE IF parts[1] \in {"/", "//"} THEN parts[1] \o JoinNames(Tail(parts))
    ELSE JoinNames(parts)

\* _should_exclude, with exclude_patterns left at DEFAULT_EXCLUDE_PATTERNS
ShouldExclude(path_str) ==
    \E k \in 1..Len(DEFAULT_EXCLUDE_PATTERNS) : Contains(path_str, DEFAULT_EXCLUDE_PATTERNS[k])

\* any(part.startswith('.') for part in file_path.parts); exclude_hidden is
\* left at True
IsHidden(parts) == \E k \in 1..Len(parts) : SubSeq(parts[k], 1, 1) = "."

\* A file of an extension that is not indexed.
ImageFile ==
    [name |-> "a.png", path |-> "a.png", ext |-> ".png", status |-> "ok", wide |-> 0,
     items |-> <<>>, root |-> Leaf("none", 0), blanks |-> {}]

\* A source file of one function.
OneFunction == SourceFile(".py", << Item("func", <<>>, LongLen) >>)

\* The files a directory of the model holds: well-formed and malformed
\* sources, texts, and files whose text cannot be had.
DirFileShapes ==
    { OneFunction,
      SourceFile(".PY", << Item("func", <<>>, LongLen) >>),
      SourceFile(".ts", << Item("class", << LongLen >>, LongLen) >>),
      [TextFile EXCEPT !.ext = ".MD"],
      SourceFile(".py", << Item("func", <<>>, LongLen), Item("error", <<>>, TinyLen) >>),
      SourceFile(".js", << Item("error", <<>>, TinyLen) >>),
      TextFile, ImageFile }
    \cup UnreadableFiles

\* The names of the files of a directory differ: the file at position k.
DirNames == <<"f1", "f2", "f3", "f4">>

\* An entry path.rglob yields for a file: the file at root/rel.
Entry(f, root, rel) ==
    [file |-> [f EXCEPT !.name = rel[Len(rel)], !.path = PathStr(root \o rel)],
     parts |-> root \o rel, rel |-> rel, is_file |-> TRUE]

\* The entry path.rglob yields for a directory, of the suffix its name
\* has: read_text of it would raise.
DirectoryEntry(root, rel, suffix) ==
    [file |-> [TextFile EXCEPT !.name = rel[Len(rel)], !.path = PathStr(root \o rel),
                               !.ext = suffix, !.status = "unreadable"],
     parts |-> root \o rel, rel |-> rel, is_file |-> FALSE]

\* What lies at position k of the root: `top` is the entry of the root
\* itself, `below` the entries of a directory.  A file lies at the top
\* under its name; the file of one function also as a hidden file, under a
\* name that holds an excluded pattern, in a hidden directory, in a
\* directory whose name holds an excluded pattern and in a plain directory;
\* a directory may have the name of a file.
Placements(f, root, k) ==
    LET name == DirNames[k] \o f.ext
        hidden == "." \o DirNames[k]
        modules == DirNames[k] \o "_node_modules"
        plain == DirNames[k] \o "_src"
    IN  { [top |-> Entry(f, root, << name >>), below |-> <<>>] }
        \cup (IF f = OneFunction
              THEN { [top |-> Entry(f, root, << "." \o name >>), below |-> <<>>],
                     [top |-> Entry(f, root, << "rebuild_" \o name >>), below |-> <<>>],
                     [top |-> DirectoryEntry(root, << hidden >>, ""),
                      below |-> << Entry(f, root, << hidden, name >>) >>],
                     [top |-> DirectoryEntry(root, << modules >>, ""),
                      below |-> << Entry(f, root, << modules, name >>) >>],
                     [top |-> DirectoryEntry(root, << plain >>, ""),
                      below |-> << Entry(f, root, << plain, name >>) >>],
                     [top |-> DirectoryEntry(root, << name >>, f.ext), below |-> <<>>] }
              ELSE {})

PlacedAt(root, k) == UNION { Placements(f, root, k) : f \in DirFileShapes }

RECURSIVE TreesOfLen(_, _)
TreesOfLen(root, n) ==
    IF n = 0 THEN { <<>> }
    ELSE { Append(t, p) : t \in TreesOfLen(root, n - 1), p \in PlacedAt(root, n) }

\* path.rglob("**/*") on the tree: the entries of the root, directories
\* among them, then the entries of each of its directories.
RECURSIVE Below(_)
Below(tree) == IF tree = <<>> THEN <<>> ELSE Head(tree).below \o Below(Tail(tree))

Rglob(tree) == [k \in 1..Len(tree) |-> tree[k].top] \o Below(tree)

\* What rglob may yield below the root.
Dirs(root) == { Rglob(t) : t \in UNION { TreesOfLen(root, n) : n \in 0..MaxDirFiles } }

\* The roots load is called on: a plain one, one whose path holds an
\* excluded pattern, a hidden one, two absolute ones (below '/' and below
\* '//') and the working directory.
Roots ==
    { << "repo" >>, << "my_build", "src" >>, << ".proj" >>, << "/", "srv", "repo" >>,
      << "//", "srv", "repo" >>, <<>> }

\* Importing ast_loader raises NameError when tree_sitter cannot be
\* imported: Parser is not bound when `-> Parser` is evaluated.
ImportRaisesNameError(env) == env = "absent"

\* HAS_TREE_SITTER: tree_sitter and the JavaScript and Python grammars were
\* imported.
HAS_TREE_SITTER(env) == env \in {"full", "no_typescript"}

\* DirectoryLoader(root_dir, use_ast=use_ast): ImportError is caught, and
\* nothing else.
LoaderInit ==
    /\ load_pc = "new"
    /\ IF ~use_ast
       THEN /\ load_pc' = "idle"
            /\ use_ast' = FALSE
       ELSE IF ImportRaisesNameError(ts_env)
       THEN /\ load_pc' = "init_raised"
            /\ use_ast' = use_ast
       ELSE IF ~HAS_TREE_SITTER(ts_env)
       THEN /\ load_pc' = "idle"
            /\ use_ast' = FALSE
       ELSE /\ load_pc' = "idle"
            /\ use_ast' = TRUE
    /\ UNCHANGED <<ts_env, root_dir, dir, pos, dir_documents>>
    /\ UNCHANGED <<index_vars, chat_vars, walk_vars>>

\* A slip: an error while reading a file leaves load.
AbortsOnReadError == FALSE

\* except UnicodeDecodeError: continue / except Exception: ... continue
ContinuesOnReadError == TRUE

\* The simple loading of load: one Document with the whole text.
SimpleLoad(e) ==
    << [page_content |-> [header |-> << <<"File", e.file.name>> >>,
                          code |-> <<0, e.file.root.len>>],
        metadata |-> [source |-> e.file.path, filename |-> e.file.name,
                      extension |-> e.file.ext, relative_path |-> PathStr(e.rel),
                      parse_method |-> "simple"]] >>

\* Whether the file is handed to the AST loader.
UsesAstLoader(f, ast) == ast /\ Lower(f.ext) \in AST_EXTENSIONS

\* Whether the extension of the file is one that is indexed.
Skipped(f) == Lower(f.ext) \notin SUPPORTED_EXTENSIONS

\* The four `continue` at the head of the loop: the entry is no file, is
\* hidden, meets an excluded pattern, or has an extension that is not indexed.
PassedOver(e) ==
    \/ ~e.is_file
    \/ IsHidden(e.parts)
    \/ ShouldExclude(PathStr(e.parts))
    \/ Skipped(e.file)

\* load() up to the loop; a root that does not exist gives [].
LoadStart ==
    /\ load_pc = "idle"
    /\ load_pc' = IF root_dir.exists THEN "scanning" ELSE "done"
    /\ pos' = 1
    /\ dir_documents' = <<>>
    /\ UNCHANGED <<ts_env, root_dir, dir, use_ast>>
    /\ UNCHANGED <<index_vars, chat_vars, walk_vars>>

\* One pass of the loop over path.rglob.
LoadStep ==
    /\ load_pc = "scanning"
    /\ pos <= Len(dir)
    /\ LET e == dir[pos]
       IN  IF PassedOver(e)
           THEN /\ dir_documents' = dir_documents
                /\ load_pc' = load_pc
           ELSE IF UsesAstLoader(e.file, use_ast)
           THEN /\ dir_documents' = dir_documents \o LoadFileResult(e.file)
                /\ load_pc' = load_pc
           ELSE IF e.file.status = "ok"
           THEN /\ dir_documents' = dir_documents \o SimpleLoad(e)
                /\ load_pc' = load_pc
           ELSE /\ dir_documents' = dir_documents
                /\ load_pc' = IF ContinuesOnReadError THEN load_pc ELSE "raised"
    /\ pos' = pos + 1
    /\ UNCHANGED <<ts_env, root_dir, dir, use_ast>>
    /\ UNCHANGED <<index_vars, chat_vars, walk_vars>>

\* return documents
LoadReturn ==
    /\ load_pc = "scanning"
    /\ pos > Len(dir)
    /\ load_pc' = "done"
    /\ UNCHANGED <<ts_env, root_dir, dir, use_ast, pos, dir_documents>>
    /\ UNCHANGED <<index_vars, chat_vars, walk_vars>>

\* No DirectoryLoader is made yet.
LoadNew ==
    /\ load_pc = "new"
    /\ pos = 0
    /\ dir_documents = <<>>

LoadNext == LoaderInit \/ LoadStart \/ LoadStep \/ LoadReturn

\* Indexing starts from an empty collection and no request is served.
NoLoad ==
    /\ LoadNew
    /\ root_dir = [parts |-> << "repo" >>, exists |-> TRUE]
    /\ dir = <<>>
    /\ use_ast = TRUE

InitIndex ==
    /\ IndexInit /\ ChatIdle /\ rows = <<>> /\ WalkIdle /\ file = TextFile
    /\ NoLoad /\ ts_env = "full"

SpecIndex == InitIndex /\ [][IndexNext]_vars

\* Requests are served from a collection that holds any list of rows.
InitChat ==
    /\ IndexInit /\ ChatIdle /\ rows \in RowLists /\ WalkIdle /\ file = TextFile
    /\ NoLoad /\ ts_env = "full"

SpecChat == InitChat /\ [][ChatNext]_vars

\* The files load_file is followed through step by step: one construct, or
\* a construct and a function after it.
VisitFiles(ext) ==
    { SourceFile(ext, << item >>) : item \in Items(LangKeyOfSuffix(ext)) }
    \cup { SourceFile(ext, << item, Item("func", <<>>, LongLen) >>) :
               item \in Items(LangKeyOfSuffix(ext)) }

\* The files given to an ASTCodeLoader made without tree_sitter_typescript:
\* TypeScript sources whose text is JavaScript as well, which the JavaScript
\* parser derives as it derives a .js file.
FallbackFiles == UNION { VisitFiles(ext) \cup SingleFiles(ext) : ext \in {".ts", ".tsx"} }

\* load_file is applied to any file of the model.
InitWalk ==
    /\ IndexInit /\ ChatIdle /\ rows = <<>> /\ WalkIdle /\ NoLoad
    /\ \/ /\ ts_env = "full"
          /\ \/ file = TextFile
             \/ file \in UnreadableFiles
             \/ \E ext \in {".py", ".js", ".ts"} :
                    \/ file \in Files(ext)
                    \/ file \in WideFiles(ext)
                    \/ file \in SingleFiles(ext)
             \/ \E ext \in {".jsx", ".tsx", ".PY", ".Ts", ".JS"} : file \in VisitFiles(ext)
             \/ file = TwoExports
       \/ /\ ts_env = "no_typescript"
          /\ file \in FallbackFiles

SpecWalk == InitWalk /\ [][WalkNext]_vars

InitVisit ==
    /\ IndexInit /\ ChatIdle /\ rows = <<>> /\ WalkIdle /\ NoLoad
    /\ \/ /\ ts_env = "full"
          /\ \/ file = TextFile
             \/ file \in UnreadableFiles
             \/ \E ext \in {".py", ".js", ".jsx", ".ts", ".tsx", ".PY", ".Ts", ".JS"} :
                    file \in VisitFiles(ext) \cup WideFiles(ext)
             \/ \E ext \in {".py", ".js", ".ts"} : file \in SingleFiles(ext)
       \/ /\ ts_env = "no_typescript"
          /\ file \in FallbackFiles

\* A call of load_file that can take a step takes it.
SpecVisit == InitVisit /\ [][VisitNext]_vars /\ WF_vars(VisitNext)

\* DirectoryLoader(root_dir, use_ast).load() on any directory of the model:
\* below the plain root with use_ast on in each environment and with
\* use_ast off, below the other roots as the ingest command calls it, and
\* on a root that does not exist.
InitLoad ==
    /\ IndexInit /\ ChatIdle /\ rows = <<>> /\ WalkIdle /\ file = TextFile
    /\ LoadNew
    /\ \/ /\ \/ use_ast = TRUE /\ ts_env \in {"full", "no_typescript", "no_grammar",
                                                 "no_grammar_ts", "absent"}
             \/ use_ast = FALSE /\ ts_env = "full"
          /\ root_dir = [parts |-> << "repo" >>, exists |-> TRUE]
          /\ dir \in Dirs(root_dir.parts)
       \/ /\ use_ast = TRUE /\ ts_env = "full"
          /\ \E r \in Roots : root_dir = [parts |-> r, exists |-> TRUE]
          /\ root_dir.parts # << "repo" >>
          /\ dir \in Dirs(root_dir.parts)
       \/ /\ use_ast = TRUE /\ ts_env = "full"
          /\ root_dir = [parts |-> << "gone" >>, exists |-> FALSE]
          /\ dir = <<>>

SpecLoad == InitLoad /\ [][LoadNext]_vars

(***************************************************************************)
(* Properties of indexing, checked under SpecIndex.                        *)
(***************************************************************************)
Range(f) == { f[x] : x \in DOMAIN f }

Completed == { r \in {last, prev} : r.done }

\* The (source_path, start_line, name) of a chunk.
ContentKey(chunk) ==
    <<chunk.metadata.source, Get(chunk.metadata, "start_line"), Get(chunk.metadata, "name")>>

\* C2: the id under which add_documents stores a chunk is a function of the
\* chunk's (source_path, start_line, name) only: an unsplit chunk gets the
\* same id whatever its position in the document list and whatever the other
\* documents are.
C2_IdFromContentKey ==
    \A r1, r2 \in Completed :
        \A p \in 1..Len(r1.chunks), q \in 1..Len(r2.chunks) :
            ( /\ r1.chunks[p] \in Range(r1.documents)
              /\ r2.chunks[q] \in Range(r2.documents)
              /\ ContentKey(r1.chunks[p]) = ContentKey(r2.chunks[q]) )
            => r1.ids[p] = r2.ids[q]

\* C3: two indexing runs over the same document list give every chunk the
\* same id in the second run as in the first.
C3_SameListSameIds ==
    (last.done /\ prev.done /\ last.documents = prev.documents)
        => last.ids = prev.ids

C3_Witness ==
    /\ last.done /\ prev.done
    /\ last.documents = prev.documents
    /\ last.batch_size # prev.batch_size
    /\ Len(last.ids) >= 3

RowsOf(coll) == { coll[id] : id \in DOMAIN coll }

\* C4: after repeated ingest runs the store holds exactly one row per chunk
\* of the most recently indexed corpus, each with the chunk's current text
\* and metadata: no stale row and no duplicate.
C4_StoreIsLatestCorpus ==
    (add_pc = "idle" /\ last.done /\ last.by = "ingest" /\ (prev.done => prev.by = "ingest"))
        => /\ RowsOf(collection) = { Row(c) : c \in Range(last.chunks) }
           /\ Count(collection) = Len(last.chunks)

\* C17: two different chunks are never stored under the same id, also when
\* separate invocations of add_documents index them into the same
\* collection: chunks that differ get ids that differ, and after an
\* invocation every chunk it sent is in the store under its id, neither
\* rejected because of a row another invocation wrote nor overwriting one.
C17_NoIdCollision ==
    /\ \A r1, r2 \in Completed :
          \A p \in 1..Len(r1.chunks), q \in 1..Len(r2.chunks) :
              ContentKey(r1.chunks[p]) # ContentKey(r2.chunks[q]) => r1.ids[p] # r2.ids[q]
    /\ \A r \in Completed :
          \A p \in 1..Len(r.chunks) :
              LET id == r.ids[p]
              IN  ( /\ id \in DOMAIN r.before
                    /\ <<r.before[id].meta.source, Get(r.before[id].meta, "start_line"),
                          Get(r.before[id].meta, "name")>> # ContentKey(r.chunks[p]) )
                  => /\ r.after[id] = Row(r.chunks[p])
                     /\ r.after[id] = r.before[id]

\* What add_documents sends when all chunks go in one batch.
OneBatchTriples(cs) ==
    LET ids == BatchIds(0, Len(cs))
    IN  { <<ids[k], Row(cs[k])>> : k \in 1..Len(cs) }

\* C5: batch size has no semantic effect: whatever the batch size, a run
\* sends the triples and leaves the store in the state that one batch
\* holding every chunk gives, and two runs over the same document list send
\* the same triples.
C5_BatchSizeNoEffect ==
    /\ \A r \in Completed :
          /\ r.sent = OneBatchTriples(r.chunks)
          /\ r.after = CollectionAdd(r.before, BatchIds(0, Len(r.chunks)), r.chunks)
    /\ (last.done /\ prev.done /\ last.documents = prev.documents)
          => last.sent = prev.sent

C5_Witness ==
    /\ last.done /\ prev.done
    /\ last.documents = prev.documents
    /\ last.batch_size = 1 /\ prev.batch_size = 2
    /\ Len(last.chunks) >= 3
    /\ prev.after # prev.before

\* C8: every chunk with extraction method 'ast' reaches the store unchanged
\* and unsplit, one row per AST chunk whatever its length.
C8_AstChunksUnsplit ==
    \A r \in Completed :
        /\ \A t \in r.sent :
              t[2].meta.parse_method = "ast"
                  => \E d \in Range(r.documents) : t[2] = Row(d)
        /\ Cardinality({ t \in r.sent : t[2].meta.parse_method = "ast" })
              = Cardinality({ k \in 1..Len(r.documents) :
                                 r.documents[k].metadata.parse_method = "ast" })

(***************************************************************************)
(* Properties of retrieval, checked under SpecChat.                        *)
(***************************************************************************)
\* The positions of a result list, in order, that hold the first hit with
\* metadata of their key.
RECURSIVE FirstsBy(_, _, _)
FirstsBy(metas, K(_), p) ==
    IF p > Len(metas) THEN <<>>
    ELSE IF /\ metas[p] # NoMeta
            /\ \A q \in 1..(p - 1) : metas[q] # NoMeta => K(metas[q]) # K(metas[p])
         THEN <<p>> \o FirstsBy(metas, K, p + 1)
         ELSE FirstsBy(metas, K, p + 1)

IdentityKey3(meta) == <<meta.filename, meta.name, meta.start_line>>
IdentityKey4(meta) == <<meta.filename, meta.name, meta.start_line, meta.end_line>>

\* The texts of the chunks rendered in a context, in order.
RenderedDocs(ctx) ==
    LET segs == SelectSeq(ctx, LAMBDA seg : seg[1] = "chunk")
    IN  [k \in 1..Len(segs) |-> segs[k][4]]

\* A chat request whose query returned hits has been answered.
ChatAnswered ==
    /\ handler = "chat" /\ chat_pc = "idle" /\ out # <<>>
    /\ out[1].llm_ok
    /\ results # <<>> /\ Len(results[1].documents) > 0

\* The context and the source list hold exactly the hits at the positions ps.
RetainedAre(ps) ==
    /\ RenderedDocs(context) = [k \in 1..Len(ps) |-> results[1].documents[ps[k]]]
    /\ out[1].received.sources = [k \in 1..Len(ps) |-> Source(results[1].metadatas[ps[k]])]

\* C1: deduplication is keyed on (filename, name, start_line) only: of the
\* hits that share these three, whatever their end_line, exactly the first
\* is retained, in the context text and in the source list.
C1_DedupIgnoresEndLine ==
    ChatAnswered => RetainedAre(FirstsBy(results[1].metadatas, IdentityKey3, 1))

\* C1 as amended: deduplication is keyed on (filename, name, start_line,
\* end_line): of the hits with metadata that share all four exactly the first
\* is retained, in the context text and in the source list; hits that differ
\* in end_line are retained both.
C1_DedupKeyedOnFour ==
    ChatAnswered => RetainedAre(FirstsBy(results[1].metadatas, IdentityKey4, 1))

C1_Witness ==
    /\ ChatAnswered
    /\ \E p, q \in 1..Len(results[1].metadatas) :
          /\ p < q
          /\ results[1].metadatas[p] # NoMeta
          /\ results[1].metadatas[p] = results[1].metadatas[q]
          /\ results[1].documents[p] # results[1].documents[q]
    /\ Len(results[1].metadatas) = 3
    /\ Len(out[1].received.sources) = 2

\* C18: when the LLM backend raises, the ask command still terminates with
\* exit code 0.
C18_AskExitsZeroWithoutLlm ==
    ( /\ handler = "ask" /\ chat_pc = "idle" /\ out # <<>>
      /\ ~out[1].gateway_failed
      /\ ~out[1].llm_ok )
    => out[1].received.exit = "0"

\* The segments of a context of one tag, in order.
Segments(ctx, tag) == SelectSeq(ctx, LAMBDA seg : seg[1] = tag)

\* C16: the source list has exactly one entry per chunk rendered in the
\* context, in the same order, and the count stated in the header of the
\* context is the number of rendered chunks and the length of the source
\* list.
C16_ContextSourcesParallel ==
    ChatAnswered =>
        LET rendered == Segments(out[1].received.context_used, "chunk")
            headers == Segments(out[1].received.context_used, "header")
            sources == out[1].received.sources
        IN  /\ Len(headers) = 1
            /\ headers[1][2] = Len(rendered)
            /\ Len(sources) = Len(rendered)
            /\ \A k \in 1..Len(rendered) :
                  /\ rendered[k][2] = k
                  /\ rendered[k][3][1] = sources[k].filename
                  /\ Len(rendered[k][3]) = 2 => Some(rendered[k][3][2]) = sources[k].name
                  /\ \E p \in 1..Len(results[1].documents) :
                        /\ results[1].documents[p] = rendered[k][4]
                        /\ Source(results[1].metadatas[p]) = sources[k]

C16_Witness ==
    /\ ChatAnswered
    /\ Len(results[1].documents) = 3
    /\ results[1].metadatas[1] = NoMeta
    /\ results[1].metadatas[2] = results[1].metadatas[3]
    /\ Len(out[1].received.sources) = 1
    /\ Segments(out[1].received.context_used, "header")[1][2] = 1

\* The request in progress, or the latest one, asked for retrieval and the
\* store's count() returned 0.
CountWasZero ==
    /\ handler \in {"chat", "ask"}
    /\ request.use_rag
    /\ fail \notin {"init", "count"}
    /\ Count(rows) = 0

\* C9: when count() is 0 a retrieval request never calls the query
\* operation, raises no error, retrieves an empty context and answers with an
\* empty source list.
C9_EmptyCorpusShortCircuit ==
    CountWasZero =>
        /\ ~queried
        /\ ~raised
        /\ results = <<>>
        /\ context = (IF handler = "chat" THEN ProvidedContext(request) ELSE <<>>)
        /\ (out # <<>> /\ handler = "chat" /\ out[1].llm_ok)
              => out[1].received.sources = <<>>
        /\ (out # <<>> /\ handler = "ask") => out[1].received.exit # "exception"

C9_Witness ==
    /\ CountWasZero
    /\ handler = "chat" /\ fail = "query"
    /\ request.context = Some("selection")
    /\ out # <<>> /\ out[1].llm_ok

\* The latest request met a gateway failure, and a request with the same
\* handler and inputs was served before whose retrieval found nothing.
FailureAndReference ==
    /\ out # <<>> /\ out[1].gateway_failed
    /\ ref # <<>>
    /\ ref[1].handler = out[1].handler
    /\ ref[1].request = out[1].request

\* C10: what the caller receives after a gateway failure at query time
\* differs from what it receives after a successful retrieval that found
\* nothing.
C10_FailureDistinct ==
    (FailureAndReference /\ ref[1].llm_ok /\ (out[1].llm_ok \/ out[1].handler = "ask"))
        => out[1].received # ref[1].received

\* C10 as amended: the ask command surfaces a gateway failure, as an
\* exception that leaves the command, unlike any outcome of an empty
\* retrieval; chat catches it, prints "RAG Error" on the server and answers
\* the caller exactly as after a retrieval that found nothing.
C10_FailureDistinctInAskOnly ==
    /\ (out # <<>> /\ out[1].gateway_failed /\ out[1].handler = "ask")
          => out[1].received.exit = "exception"
    /\ (FailureAndReference /\ out[1].handler = "ask")
          => out[1].received # ref[1].received
    /\ (out # <<>> /\ out[1].gateway_failed /\ out[1].handler = "chat")
          => console = <<"RAG Error">>
    /\ (FailureAndReference /\ out[1].handler = "chat" /\ ref[1].llm_ok = out[1].llm_ok)
          => out[1].received = ref[1].received

C10_Witness ==
    /\ FailureAndReference
    /\ out[1].handler = "ask"
    /\ fail = "count"
    /\ ref[1].llm_ok

(***************************************************************************)
(* Properties of chunk extraction, checked under SpecWalk.                 *)
(***************************************************************************)
\* The chunks of load_file that start inside top-level construct k.
ChunksOfItem(k) ==
    SelectSeq(loaded, LAMBDA c : /\ c.metadata.start_line > (k - 1) * ItemRows
                                 /\ c.metadata.start_line <= k * ItemRows)

\* load_file returned what the walk appended, not the fallback.
WalkedWhole ==
    /\ walk_pc = "done"
    /\ loaded # <<>>
    /\ \A j \in 1..Len(loaded) : loaded[j].metadata.parse_method = "ast"

\* Top-level construct k of the file is a class with two methods that are
\* no degenerate slices.
ClassWithTwoMethods(k) ==
    /\ file.items[k].kind = "class"
    /\ file.items[k].methods = <<LongLen, LongLen>>

\* C6: a class with two methods yields exactly 3 chunks, the class and the
\* two methods, and the parent_class of each method chunk is the name of the
\* class, in every supported language.
C6_ContainerDuality ==
    WalkedWhole =>
        \A k \in 1..Len(file.items) :
            ClassWithTwoMethods(k) =>
                LET cs == ChunksOfItem(k)
                IN  /\ Len(cs) = 3
                    /\ cs[1].metadata.name = ClassNames[k]
                    /\ \A j \in 2..3 :
                          /\ cs[j].metadata.name = MethodNames[j - 1]
                          /\ cs[j].metadata.parent_class = ClassNames[k]

\* C7: a named function declaration wrapped in an export statement yields
\* exactly one chunk, and the chunk carries the name of the function.
C7_TransparentWrapper ==
    WalkedWhole =>
        \A k \in 1..Len(file.items) :
            file.items[k].kind = "export_func" =>
                LET cs == ChunksOfItem(k)
                IN  /\ Len(cs) = 1
                    /\ cs[1].metadata.name = FuncNames[k]
                    /\ cs[1].metadata.name # "anonymous"
                    /\ cs[1].metadata.parse_method = "ast"

C7_Witness ==
    /\ walk_pc = "done"
    /\ file.ext = ".ts"
    /\ Len(file.items) = 2
    /\ file.items[1].kind = "class"
    /\ file.items[2].kind = "export_func"
    /\ Len(loaded) >= 2
    /\ loaded[Len(loaded)].metadata.node_type = "export_statement"

\* The file's text can be read and decoded.
Readable == file.status = "ok"

NoParser == LangOfSuffix(file.ext) = None

\* The text is malformed source: the parser could not derive part of it.
Malformed == \E k \in 1..Len(file.items) : file.items[k].kind = "error"

\* The text holds an expression nested beyond the recursion limit where the
\* walk descends into it.
NestedBeyondLimit == \E k \in 1..Len(file.items) : file.items[k].kind = "deep"

\* The walk of the file's tree appends no chunk.
WalkAppendsNothing ==
    /\ ~NoParser
    /\ WalkTree(file.root, file, LangKeyOfSuffix(file.ext), None) = <<>>

IsWholeFileSimple(cs) ==
    /\ Len(cs) = 1
    /\ cs[1].metadata.parse_method = "simple"
    /\ cs[1].page_content.code = <<0, file.root.len>>

Mixed(cs) ==
    /\ \E j \in 1..Len(cs) : cs[j].metadata.parse_method = "ast"
    /\ \E j \in 1..Len(cs) : cs[j].metadata.parse_method = "simple"

\* C11 (as stated): for a readable file load_file returns exactly one
\* whole-file 'simple' chunk when the extension has no parser, when the walk
\* raises, when the walk appends nothing and when the source is malformed;
\* it never returns a mix of 'ast' and 'simple' chunks.
C11_MalformedFallsBack ==
    (walk_pc = "done" /\ Readable) =>
        /\ (NoParser \/ NestedBeyondLimit \/ WalkAppendsNothing \/ Malformed)
               => IsWholeFileSimple(loaded)
        /\ ~Mixed(loaded)

\* C11 (amended): for a readable file load_file returns exactly one
\* whole-file 'simple' chunk exactly when the extension has no parser, the
\* walk raises or the walk appends nothing; malformed source does not make
\* the parser raise, and when a construct of it is still extractable the
\* result is 'ast' chunks only; there is never a mix.
C11_FallbackWhenNothingWalked ==
    (walk_pc = "done" /\ Readable) =>
        /\ IsWholeFileSimple(loaded) <=> (NoParser \/ NestedBeyondLimit \/ WalkAppendsNothing)
        /\ (Malformed /\ ~NestedBeyondLimit /\ ~WalkAppendsNothing) => WalkedWhole
        /\ ~Mixed(loaded)

C11_Witness ==
    /\ walk_pc = "done"
    /\ Readable
    /\ file.ext = ".py"
    /\ Len(file.items) = 2
    /\ file.items[1].kind = "func"
    /\ file.items[2].kind = "error"
    /\ Len(loaded) = 1
    /\ loaded[1].metadata.parse_method = "ast"
    /\ loaded[1].metadata.name = FuncNames[1]

(***************************************************************************)
(* Properties of corpus assembly, checked under SpecLoad.                  *)
(***************************************************************************)
\* What load returns for a list of files that can all be read.
RECURSIVE LoadOfReadable(_, _)
LoadOfReadable(es, ast) ==
    IF es = <<>> THEN <<>>
    ELSE LET e == Head(es)
             one == IF PassedOver(e) THEN <<>>
                    ELSE IF UsesAstLoader(e.file, ast) THEN LoadFileResult(e.file)
                    ELSE SimpleLoad(e)
         IN  one \o LoadOfReadable(Tail(es), ast)

Failing(e) == e.file.status # "ok"

\* C12: load never raises; the files that cannot be read or decoded
\* contribute no chunk, and the result is what load returns for the
\* directory without them.
C12_FileFailureNeverAborts ==
    /\ load_pc # "raised"
    /\ load_pc = "done" =>
          /\ dir_documents = LoadOfReadable(SelectSeq(dir, LAMBDA e : ~Failing(e)), use_ast)
          /\ \A k \in 1..Len(dir) :
                Failing(dir[k]) =>
                    \A j \in 1..Len(dir_documents) :
                        dir_documents[j].metadata.source # dir[k].file.path

C12_Witness ==
    /\ load_pc = "done"
    /\ Len(dir) = 2
    /\ Failing(dir[1])
    /\ dir[1].file.ext = ".md"
    /\ ~Failing(dir[2])
    /\ Len(dir_documents) = 1
    /\ dir_documents[1].metadata.source = dir[2].file.path

\* load_file walked the tree of a readable file to its end.
Walked == walk_pc = "done" /\ Readable /\ ~NoParser /\ ~NestedBeyondLimit

\* The node of top-level construct k of the file.
ItemNodeOf(k) == file.root.children[k + (IF file.wide = 0 THEN 0 ELSE 1)]

\* The kinds of top-level constructs whose node is handed to _make_chunk.
ExtractableKinds ==
    IF LangOfSuffix(file.ext) = Some("python") THEN {"func", "class", "nested_func", "nested_class"}
    ELSE {"func", "export_func", "stmt", "class", "export_class", "nested_func",
          "export_declare_class"}

\* load_file returned a chunk made from the node.
HasChunkOf(node) ==
    \E j \in 1..Len(loaded) :
        /\ loaded[j].metadata.parse_method = "ast"
        /\ loaded[j].metadata.node_type = node.type
        /\ loaded[j].metadata.start_line = node.start_row + 1

\* The characters of the text that are the source text of a node.
NodeText(node) == << node.start, node.start + node.len >>

\* C13: the chunk builder returns no chunk exactly when the source text of
\* the node, trimmed of white space at its ends, is shorter than 10
\* characters: a node of 5 characters yields no chunk and a node of 50
\* characters yields one.
C13_DegenerateRejection ==
    Walked =>
        \A k \in 1..Len(file.items) :
            file.items[k].kind \in ExtractableKinds =>
                (HasChunkOf(ItemNodeOf(k))
                    <=> SliceLen(NodeText(ItemNodeOf(k)), file) >= MinChunkLen)

\* The header of a chunk has a line of the kind.
HasLine(c, kind) ==
    \E j \in 1..Len(c.page_content.header) : c.page_content.header[j][1] = kind

\* The node a chunk was made from has an identifier-like child, or a child
\* whose kind contains "declaration" that has one, at any depth.
RECURSIVE HasIdentifier(_)
HasIdentifier(node) ==
    \/ \E k \in 1..Len(node.children) : node.children[k].type \in IdentifierTypes
    \/ \E k \in 1..Len(node.children) :
          /\ Contains(node.children[k].type, "declaration")
          /\ HasIdentifier(node.children[k])

C15_LineRangeOfAstOnly ==
    walk_pc = "done" =>
        /\ \A j \in 1..Len(loaded) :
              LET m == loaded[j].metadata
              IN  IF m.parse_method = "ast"
                  THEN /\ m.start_line # NoLine /\ m.end_line # NoLine
                       /\ 1 <= m.start_line /\ m.start_line <= m.end_line
                  ELSE /\ m.parse_method = "simple"
                       /\ {"start_line", "end_line", "name", "node_type"} \cap DOMAIN m = {}
        /\ WalkedWhole =>
              \A k \in 1..Len(file.items) :
                  LET cs == ChunksOfItem(k)
                  IN  (cs # <<>> /\ cs[1].metadata.node_type = ItemNodeOf(k).type) =>
                          /\ cs[1].metadata.start_line = ItemNodeOf(k).start_row + 1
                          /\ cs[1].metadata.end_line = ItemNodeOf(k).end_row + 1
        /\ (Readable /\ (NoParser \/ NestedBeyondLimit)) =>
              \A j \in 1..Len(loaded) : loaded[j].metadata.parse_method = "simple"

C15_Witness ==
    /\ WalkedWhole
    /\ file.ext = ".py"
    /\ file.wide = 0
    /\ Len(file.items) = 2
    /\ file.items[1].kind = "func"
    /\ file.items[2].kind = "class"
    /\ loaded[1].metadata.start_line = 1
    /\ loaded[1].metadata.end_line = 2
    /\ loaded[2].metadata.start_line = ItemRows + 1

\* The text of chunk c lies inside the text of chunk d.
Inside(c, d) ==
    /\ d.page_content.code[1] <= c.page_content.code[1]
    /\ c.page_content.code[2] <= d.page_content.code[2]

\* C19: no emitted chunk lies inside an emitted chunk whose node is
\* extracted and is no container; a function that defines a function, and
\* an export statement that wraps a class, yield one chunk.
C19_NoWalkBelowExtracted ==
    WalkedWhole =>
        /\ \A p, q \in 1..Len(loaded) :
              ( /\ p # q
                /\ loaded[p].metadata.node_type
                      \notin CONTAINER_NODE_TYPES(LangKeyOfSuffix(file.ext)) )
              => ~Inside(loaded[q], loaded[p])
        /\ \A k \in 1..Len(file.items) :
              file.items[k].kind \in {"nested_func", "export_class", "export_func"}
                  => Len(ChunksOfItem(k)) = 1

C19_Witness ==
    /\ WalkedWhole
    /\ file.ext = ".js"
    /\ Len(file.items) = 2
    /\ file.items[1].kind = "nested_func"
    /\ file.items[2].kind = "func"
    /\ Len(loaded) = 2
    /\ loaded[1].metadata.name = FuncNames[1]
    /\ SliceLen(loaded[1].page_content.code, file) = 2 * LongLen

\* C20: the chunk of a container carries the enclosing name in force where
\* the container stands (empty at top level), and a chunk emitted below a
\* container carries the extracted name of its nearest enclosing container
\* node, nodes that are not extracted in between changing nothing: the
\* method of a class defined in a class is attributed to the inner class.
C20_NearestContainerName ==
    WalkedWhole =>
        \A k \in 1..Len(file.items) :
            LET cs == ChunksOfItem(k)
                kind == file.items[k].kind
                n == Len(file.items[k].methods)
            IN  /\ cs # <<>> => cs[1].metadata.parent_class = ""
                /\ (kind = "nested_class") =>
                      /\ Len(cs) = 2 + n
                      /\ cs[1].metadata.name = ClassNames[k]
                      /\ cs[2].metadata.name = "Inner"
                      /\ cs[2].metadata.parent_class = ClassNames[k]
                      /\ \A j \in 3..Len(cs) : cs[j].metadata.parent_class = "Inner"
                /\ (kind = "class" /\ LangOfSuffix(file.ext) = Some("python")) =>
                      \A j \in 2..Len(cs) : cs[j].metadata.parent_class = ClassNames[k]
                /\ (kind = "class" /\ LangOfSuffix(file.ext) # Some("python")) =>
                      \A j \in 2..Len(cs) :
                          cs[j].metadata.parent_class =
                              (IF cs[j].metadata.node_type = "class_body"
                               THEN ClassNames[k]
                               ELSE GetNodeName(ItemNodeOf(k).children[3]))

C20_Witness ==
    /\ WalkedWhole
    /\ file.ext = ".py"
    /\ Len(file.items) = 1
    /\ file.items[1].kind = "nested_class"
    /\ Len(file.items[1].methods) = 1
    /\ Len(loaded) = 3
    /\ loaded[3].metadata.name = "m1"
    /\ loaded[3].metadata.parent_class = "Inner"

\* The chunks load_file returns for the file that holds the one construct.
ChunksOfAlone(ext, item) == LoadFileResult(SourceFile(ext, << item >>))

\* The method chunks among a list of chunks, as <<name, parent_class>>.
MethodsOf(cs) ==
    LET ms == SelectSeq(cs, LAMBDA c : c.metadata.node_type = "method_definition")
    IN  [j \in 1..Len(ms) |-> <<ms[j].metadata.name, ms[j].metadata.parent_class>>]

\* C21: a class declaration wrapped in an export statement is still walked:
\* its methods are emitted as separate chunks, attributed as they are for
\* the same class without the export wrapper.
C21_ExportedClassIsWalked ==
    WalkedWhole =>
        \A k \in 1..Len(file.items) :
            file.items[k].kind = "export_class" =>
                MethodsOf(ChunksOfItem(k))
                    = MethodsOf(ChunksOfAlone(file.ext,
                                              [file.items[k] EXCEPT !.kind = "class"]))

\* The chunk of loaded made from the node of top-level construct k, as a
\* list: empty when the node was dropped.
OwnChunkOf(k) ==
    SelectSeq(ChunksOfItem(k),
              LAMBDA c : /\ c.metadata.node_type = ItemNodeOf(k).type
                         /\ c.metadata.start_line = ItemNodeOf(k).start_row + 1
                         /\ c.metadata.end_line = ItemNodeOf(k).end_row + 1)

IdentifierChildren(node) == SelectSeq(node.children, LAMBDA ch : ch.type \in IdentifierTypes)
DeclarationChildren(node) ==
    SelectSeq(node.children, LAMBDA ch : Contains(ch.type, "declaration"))

\* The nodes from a node down to where the name is decided: each node
\* without an identifier-like child is followed by its first child whose
\* kind contains "declaration", as long as there is one.
RECURSIVE DeclarationChain(_)
DeclarationChain(node) ==
    IF IdentifierChildren(node) # <<>> \/ DeclarationChildren(node) = <<>>
    THEN << node >>
    ELSE << node >> \o DeclarationChain(DeclarationChildren(node)[1])

Before(p, q) ==
    \/ /\ Len(p) < Len(q)
       /\ \A j \in 1..Len(p) : p[j] = q[j]
    \/ \E j \in 1..Min(Len(p), Len(q)) :
           /\ p[j] < q[j]
           /\ \A l \in 1..(j - 1) : p[l] = q[l]

\* The nodes are taken in document order, a node before the nodes below it.
VisitedInOrder ==
    \A a, b \in 1..Len(visited) : a < b => Before(visited[a], visited[b])

\* The chunks made from the tree stand in the order of where their nodes
\* start, and the chunk of a container before the chunks of its members.
ChunksInOrder ==
    \A a, b \in 1..Len(loaded) :
        /\ loaded[a].metadata.parse_method = "ast"
        /\ loaded[b].metadata.parse_method = "ast"
        => /\ a < b => loaded[a].page_content.code[1] < loaded[b].page_content.code[1]
           /\ ( /\ a # b
                /\ loaded[a].metadata.node_type
                       \in CONTAINER_NODE_TYPES(LangKeyOfSuffix(file.ext))
                /\ loaded[a].page_content.code # loaded[b].page_content.code
                /\ loaded[a].page_content.code[1] <= loaded[b].page_content.code[1]
                /\ loaded[b].page_content.code[2] <= loaded[a].page_content.code[2] )
              => a < b

\* The walk gives what the tree determines.
SameTreeSameChunks == walk_pc = "done" => loaded = LoadFileResult(file)

\* C23: the walk of a finite tree comes to an end; it takes the nodes in
\* document (pre-)order and appends the chunks in that order, the chunk of a
\* container before the chunks of its members; what it returns is a
\* function of the tree.
C23_WalkTerminatesInOrder ==
    /\ [](VisitedInOrder /\ ChunksInOrder /\ SameTreeSameChunks)
    /\ (walk_pc = "walking") ~> (walk_pc = "done")

C23_Witness ==
    /\ WalkedWhole
    /\ file.ext = ".py"
    /\ Len(file.items) = 2
    /\ file.items[1].kind = "class"
    /\ file.items[1].methods = << LongLen, LongLen >>
    /\ Len(loaded) = 4
    /\ loaded[1].metadata.node_type = "class_definition"
    /\ loaded[2].metadata.parent_class = loaded[1].metadata.name
    /\ loaded[3].metadata.parent_class = loaded[1].metadata.name
    /\ loaded[4].metadata.name = FuncNames[2]
    /\ Len(visited) > 4

\* C24: deduplication collapses only hits of the same stored chunk: of two
\* hits with metadata whose texts differ, the windows of one simple-loaded
\* file (no name, no start_line) included, both texts are in the context and
\* the source list has an entry for each.
C24_DedupKeepsDistinctRows ==
    ChatAnswered =>
        LET docs == results[1].documents
            metas == results[1].metadatas
            kept == { docs[p] : p \in { q \in 1..Len(docs) : metas[q] # NoMeta } }
        IN  /\ kept \subseteq Range(RenderedDocs(context))
            /\ Len(out[1].received.sources) >= Cardinality(kept)

====
